---- MODULE Spec2Model ----
(***************************************************************************)
(* Model of threads-toolkit: the batch scheduler of src/main.ts (runBatch,  *)
(* runNext and the top-level try/catch), the retry policy of               *)
(* src/utils/page-helpers.ts (withRateLimitRetry) and the wait-for-content *)
(* fallback of the four action request handlers (detectPageError,          *)
(* handlePageError, isNotFoundPage).                                       *)
(*                                                                         *)
(* JavaScript runs every piece of code between two awaits to completion,   *)
(* so one action of the model is one such piece: the continuation of       *)
(* `await task.fn()` in runNext, for example, is the catch/finally block   *)
(* together with the synchronous prefix of the nested runNext() call.      *)
(***************************************************************************)
EXTENDS Integers, Sequences, FiniteSets, TLC

\* ------------------------------------------------------------------ bounds
MaxTasks == 5      \* tasks.length is at most this in the inputs explored
MaxPerKind == 2    \* length of each of keywords/usernames/tags/postUrls
MaxConc == 3       \* largest `concurrency` explored

Items == {"a"}               \* the strings a batch list may hold
\* An optional value: JavaScript's undefined, or a value that is present
Undef == [set |-> FALSE]
Some(v) == [set |-> TRUE, val |-> v]

\* ------------------------------------------------------------------ state
VARIABLES
    input,      \* Actor.getInput(): null, a BatchInput or a single Input
    mainPc,     \* position of the top-level code of main.ts
    tasks,      \* runBatch: const tasks (sequence of {name, fn})
    queue,      \* runBatch: const queue = [...tasks]; holds indices of tasks
    active,     \* runBatch: let active
    success,    \* runBatch: let success
    fail,       \* runBatch: let fail
    errors,     \* runBatch: const errors
    workers,    \* runBatch: const workers, one promise of runNext() each
    invoked,    \* per task: how many times task.fn() was called
    outcome,    \* per task: "none", "running", "ok" or the error it threw
    summary,    \* the 'Batch summary' log records written so far
    \* withRateLimitRetry (page-helpers.ts)
    rConfig,    \* the RateLimitConfig argument
    rPc,        \* position inside withRateLimitRetry
    attempt,    \* the loop variable
    lastError,  \* let lastError
    rCalls,     \* how many times fn() was invoked
    rSleeps,    \* the delays passed to sleep(), in order
    rFnLog,     \* what each invocation of fn() did, in order
    rResult,    \* what withRateLimitRetry returned or threw
    \* request handler of an action, from the wait for content on
    hAction,    \* which action's handler: search, hashtag, profile, post
    hPage,      \* the document as the handler finds it
    hPc,        \* position inside the handler
    hInfo,      \* const errorInfo = await detectPageError(page)
    hClassified,\* how many times detectPageError ran
    hOutcome,   \* how the handler ended
    \* scrollForPosts (page-helpers.ts)
    sMaxItems,          \* the maxItems argument
    sPc,                \* position inside scrollForPosts
    sI,                 \* the loop variable i
    scrollCount,        \* let scrollCount
    noNewContentCount,  \* let noNewContentCount
    seenPostIds,        \* const seenPostIds
    sElapsed,           \* Date.now() - startTime, in milliseconds
    sCycleSets,         \* the ID sets the executed cycles observed
    sGains,             \* per executed cycle: did it show an unseen ID
    sStop,              \* why the loop was left
    \* request handler of an action, after the wait for content
    pMaxItems,      \* input.maxItems
    pIncludePosts,  \* input.includePosts (profile action)
    pPc,            \* position inside the handler
    pScrollCalls,   \* how many times scrollForPosts was called
    pExtractCalls,  \* how many times an extract...FromPage was called
    pPosts,         \* const posts / const replies
    pNext,          \* index of the next element of the for...of loop
    seenIds,        \* search/hashtag: const seenIds
    collected,      \* search/hashtag: collectedPosts.length
    profileData,    \* profile: const profileData
    postData,       \* post: const postData
    dataset,        \* the records passed to Dataset.pushData, in order
    pOutcome,       \* how the handler ended
    \* validatePost / validateProfile (page-helpers.ts)
    vInput,     \* the argument
    vPc,        \* "idle", "call" or "done"
    vResult,    \* the value returned
    \* parseRelativeTime / parseStatNumber (selectors.ts)
    fName,      \* which parser is called
    fText,      \* the text argument, a sequence of characters
    fPc,        \* "idle", "call" or "done"
    fResult,    \* the value returned
    \* video capture of concurrently running action calls
    mPc,                  \* per action call: position of its crawler
    videoRequests,        \* per action call: const videoRequests
    scrollVideoRequests,  \* per action call: scrollForPosts' videoRequests
    mListeners,           \* the 'response' listeners registered on pages
    mWindow,              \* per page: window.__threadsVideoRequests
    mResponses,           \* per page: the video URLs it has responded with
    \* one cycle of scrollForPosts, await by await
    cPc,        \* position inside the cycle
    cStep,      \* the loop variable step
    cLog,       \* the page operations performed, in order
    cSeen,      \* seenPostIds
    cVideo,     \* videoRequests.size > 0
    \* extractPostsFromPage (selectors.ts)
    eLinks,     \* the elements page.locator(postLink) matches, in order
    eMaxItems,  \* the maxItems argument
    ePc,        \* position inside extractPostsFromPage
    eI,         \* the loop variable i, counted from 1
    ePosts,     \* const posts
    eSeenIds,   \* const seenIds
    eLookups,   \* the ids whose container was looked up, in order
    eResult     \* what extractPostsFromPage resolved with

batchVars == <<input, mainPc, tasks, queue, active, success, fail, errors,
               workers, invoked, outcome, summary>>

retryVars == <<rConfig, rPc, attempt, lastError, rCalls, rSleeps, rFnLog,
               rResult>>

handlerVars == <<hAction, hPage, hPc, hInfo, hClassified, hOutcome>>

scrollVars == <<sMaxItems, sPc, sI, scrollCount, noNewContentCount,
                seenPostIds, sElapsed, sCycleSets, sGains, sStop>>

pipeVars == <<pMaxItems, pIncludePosts, pPc, pScrollCalls, pExtractCalls,
              pPosts, pNext, seenIds, collected, profileData, postData,
              dataset, pOutcome>>

validateVars == <<vInput, vPc, vResult>>

parseVars == <<fName, fText, fPc, fResult>>

mediaVars == <<mPc, videoRequests, scrollVideoRequests, mListeners, mWindow,
               mResponses>>

cycleVars == <<cPc, cStep, cLog, cSeen, cVideo>>

extractVars == <<eLinks, eMaxItems, ePc, eI, ePosts, eSeenIds, eLookups,
                 eResult>>

\* the parsers, the video capture, the single cycle and the bulk extraction
extraVars == <<parseVars, mediaVars, cycleVars, extractVars>>

\* the state of the parts modelled after the wait for content
restVars == <<scrollVars, pipeVars, validateVars, extraVars>>

vars == <<batchVars, retryVars, handlerVars, restVars>>

\* ---------------------------------------------------------------- helpers
Max(a, b) == IF a >= b THEN a ELSE b

SeqsUpTo(S, n) == UNION {[1..k -> S] : k \in 0..n}

\* `x = []` default of a destructuring pattern: only undefined is replaced
OrEmpty(x) == IF x.set THEN x.val ELSE <<>>

\* What a task's work function may throw, as String(err) records it
ErrKinds == {"Error"}

\* ------------------------------------------------------------------ inputs
\* `concurrency` values: below 1 (lifted to 1 by Math.max) and 1..MaxConc
ConcurrencyValues == {-1, 0} \cup (1..MaxConc)

BatchLists == {Undef} \cup {Some(l) : l \in SeqsUpTo(Items, MaxPerKind)}

BatchInputs ==
    {b \in [type : {"batch"}, keywords : BatchLists, usernames : BatchLists,
            tags : BatchLists, postUrls : BatchLists,
            concurrency : {Undef} \cup {Some(c) : c \in ConcurrencyValues}] :
        /\ b.keywords.set \/ b.usernames.set \/ b.tags.set \/ b.postUrls.set
        /\ Len(OrEmpty(b.keywords)) + Len(OrEmpty(b.usernames))
             + Len(OrEmpty(b.tags)) + Len(OrEmpty(b.postUrls)) <= MaxTasks}

NullInput == [type |-> "null"]

SingleInputs ==
    [type : {"single"},
     action : {"search", "profile", "hashtag", "post", "bogus"},
     hasField : BOOLEAN]

\* main.ts 151-156: batch mode iff one of the four lists is an array
IsBatch(in) ==
    /\ in.type = "batch"
    /\ \/ in.keywords.set
       \/ in.usernames.set
       \/ in.tags.set
       \/ in.postUrls.set

\* main.ts 21-46: validateInput throws for an unknown action or a missing
\* required field
ValidateInputThrows(in) ==
    \/ in.action \notin {"search", "profile", "hashtag", "post"}
    \/ ~in.hasField

\* main.ts 77-102: the task list, in the order keywords, usernames, tags,
\* postUrls; a task's name is `${kind}:${item}`
TasksOfKind(kind, list) ==
    [i \in 1..Len(list) |-> [kind |-> kind, item |-> list[i]]]

BuildTasks(b) ==
    TasksOfKind("search", OrEmpty(b.keywords))
      \o TasksOfKind("profile", OrEmpty(b.usernames))
      \o TasksOfKind("hashtag", OrEmpty(b.tags))
      \o TasksOfKind("post", OrEmpty(b.postUrls))

\* main.ts 74: `concurrency = 2` default
Concurrency(b) == IF b.concurrency.set THEN b.concurrency.val ELSE 2

\* main.ts 131: the loop bound Math.max(1, concurrency)
WorkerCountOffByOne(c) == Max(1, c) + 1
WorkerCount(c) == Max(1, c)

\* main.ts 112: queue.shift() leaves the rest of the queue
ShiftKeepsHead(q) == q
Shift(q) == Tail(q)

\* main.ts 118: `catch (err)` catches whatever task.fn() threw
CatchesNothing(err) == FALSE
Catches(err) == TRUE

\* main.ts 119: fail++
FailAfterCatchForgets(f) == f
FailAfterCatch(f) == f + 1

\* main.ts 120: errors.push({ name: task.name, error: String(err) })
PushErrorDropsIt(errs, task, err) == errs
PushError(errs, task, err) == Append(errs, [name |-> task, error |-> err])

\* main.ts 122-126: the finally block goes on to the next task whenever the
\* queue is not empty, whether or not the task threw
ContinuesOnlyAfterSuccess(q, threw) == ~threw /\ Len(q) > 0
Continues(q, threw) == Len(q) > 0

\* main.ts 134: Promise.all(workers) is fulfilled when every worker is,
\* and rejected as soon as one worker is rejected
PromiseRace(ws) ==
    IF \E i \in 1..Len(ws) : ws[i].st = "rejected" THEN "rejected"
    ELSE IF \E i \in 1..Len(ws) : ws[i].st = "done" THEN "fulfilled"
    ELSE "pending"
PromiseAll(ws) ==
    IF \E i \in 1..Len(ws) : ws[i].st = "rejected" THEN "rejected"
    ELSE IF \A i \in 1..Len(ws) : ws[i].st = "done" THEN "fulfilled"
    ELSE "pending"

\* ------------------------------------------------------ the retry policy
\* page-helpers.ts 16-21: DEFAULT_RATE_LIMIT_CONFIG
DefaultMaxRetries == 3
DefaultBackoffDelay == 5000
DefaultBackoffMultiplier == 2

MaxRetriesCfg == 3     \* largest explicit maxRetries explored

\* `x = default` of a destructuring pattern: only undefined is replaced
OrDefault(x, d) == IF x.set THEN x.val ELSE d

\* the RateLimitConfig arguments explored
RetryConfigs ==
    [maxRetries : {Undef} \cup {Some(n) : n \in 0..MaxRetriesCfg},
     backoffDelay : {Undef} \cup {Some(d) : d \in {0, 1000}},
     backoffMultiplier : {Undef} \cup {Some(m) : m \in {1, 3}}]

\* page-helpers.ts 336-340
MaxRetriesOfIgnoresConfig(c) == DefaultMaxRetries

MaxRetriesOf(c) == OrDefault(c.maxRetries, DefaultMaxRetries)
BackoffDelayOf(c) == OrDefault(c.backoffDelay, DefaultBackoffDelay)
BackoffMultiplierOf(c) ==
    OrDefault(c.backoffMultiplier, DefaultBackoffMultiplier)

\* Math.pow on non-negative integers
RECURSIVE Pow(_, _)
Pow(b, e) == IF e = 0 THEN 1 ELSE b * Pow(b, e - 1)

\* page-helpers.ts 356: backoffDelay * Math.pow(backoffMultiplier, attempt)
DelayOffByOne(c, k) == BackoffDelayOf(c) * Pow(BackoffMultiplierOf(c), k + 1)
Delay(c, k) == BackoffDelayOf(c) * Pow(BackoffMultiplierOf(c), k)

\* page-helpers.ts 351: error instanceof RateLimitError
IsRateLimitErrorAny(e) == TRUE
IsRateLimitError(e) == e.kind = "RateLimitError"

\* what fn() may throw and return
FnErrKinds == {"RateLimitError", "Error"}
FnValues == {"v1", "v2"}

NoError == [kind |-> "null", call |-> 0]

\* withRateLimitRetry is not called
RetryIdle ==
    /\ rConfig = [maxRetries |-> Undef, backoffDelay |-> Undef,
                  backoffMultiplier |-> Undef]
    /\ rPc = "idle"
    /\ attempt = 0
    /\ lastError = NoError
    /\ rCalls = 0
    /\ rSleeps = <<>>
    /\ rFnLog = <<>>
    /\ rResult = [type |-> "none"]

\* ------------------------------------------------- the page and classifier
MaxBody == 2           \* number of text fragments of document.body
MaxPostLinks == 1      \* number of a[href*="/post/"] elements

\* A text of 60 characters, none of them part of a phrase looked for
LongText == "lorem ipsum dolor sit amet consectetur adipiscing elit sed do"

\* document.body.textContent is a sequence of fragments joined by single
\* blanks; a phrase is a sequence of fragments, and String.includes is the
\* occurrence of the phrase as a contiguous run of fragments
BodyFragments ==
    {"Too many requests", "Try again", "later", "temporarily", "blocked",
     "Welcome", LongText}

FragLen(f) ==
    CASE f = "Too many requests" -> 17
      [] f = "Try again" -> 9
      [] f = "later" -> 5
      [] f = "temporarily" -> 11
      [] f = "blocked" -> 7
      [] f = "Welcome" -> 7
      [] OTHER -> 60

\* bodyText.trim().length: the fragments and the blanks between them (a body
\* of fragments has no blank at either end)
RECURSIVE TrimmedLength(_)
TrimmedLength(t) ==
    IF t = <<>> THEN 0
    ELSE IF Len(t) = 1 THEN FragLen(t[1])
    ELSE FragLen(Head(t)) + 1 + TrimmedLength(Tail(t))

\* String.toLowerCase
LowerFrag(f) ==
    CASE f = "Too many requests" -> "too many requests"
      [] f = "Try again" -> "try again"
      [] f = "Something went wrong" -> "something went wrong"
      [] f = "Welcome" -> "welcome"
      [] OTHER -> f

ToLowerCase(t) == [i \in 1..Len(t) |-> LowerFrag(t[i])]

\* String.includes
Includes(t, pat) ==
    \E i \in 0..(Len(t) - Len(pat)) : \A j \in 1..Len(pat) : t[i + j] = pat[j]

\* page-helpers.ts 90-105 (phrases in other scripts are named by language)
RateLimitPatterns ==
    << <<"rate limit">>, <<"too many requests">>, <<"try again", "later">>,
       <<"zh-Hant try again later">>, <<"zh-Hans try again later">>,
       <<"ja try again later">>, <<"ko try again later">>, <<"slow down">>,
       <<"temporarily", "blocked">>, <<"zh-Hant temporarily blocked">>,
       <<"zh-Hans temporarily blocked">>, <<"wait a few minutes">>,
       <<"zh-Hant wait a few minutes">>, <<"zh-Hans wait a few minutes">> >>

\* page-helpers.ts 111-120
ErrorPatterns ==
    << <<"Something went wrong">>, <<"zh-Hant something went wrong">>,
       <<"zh-Hans something went wrong">>, <<"ja something went wrong">>,
       <<"ko something went wrong">>, <<"Try again">>, <<"blocked">>,
       <<"unavailable">> >>

\* a phrase as the string the code holds
PatternText(pat) ==
    IF Len(pat) = 1 THEN pat[1] ELSE "multi-fragment phrase"

MatchesAny(lower, patterns) ==
    {k \in 1..Len(patterns) : Includes(lower, ToLowerCase(patterns[k]))}

\* page-helpers.ts 130-132: isEmpty
IsEmptyOnlyWithoutMainContent(postLinkCount, hasMainContent, trimmedLength) ==
    postLinkCount = 0 /\ ~hasMainContent /\ trimmedLength < 50

IsEmpty(postLinkCount, hasMainContent, trimmedLength) ==
    postLinkCount = 0 /\ (~hasMainContent \/ trimmedLength < 50)

\* page-helpers.ts 134-145: errorMessage; errs are the indices of the
\* matching error patterns
ErrorMessageGenericFirst(isRateLimited, errs) ==
    IF errs # {}
    THEN PatternText(ErrorPatterns[CHOOSE k \in errs : \A j \in errs : k <= j])
    ELSE IF isRateLimited THEN "Rate limited by Threads"
    ELSE "Unknown error"

ErrorMessage(isRateLimited, errs) ==
    IF isRateLimited THEN "Rate limited by Threads"
    ELSE IF errs # {}
    THEN PatternText(ErrorPatterns[CHOOSE k \in errs : \A j \in errs : k <= j])
    ELSE "Unknown error"

\* page-helpers.ts 66-157: detectPageError
DetectPageError(page) ==
    LET bodyTextLower == ToLowerCase(page.body)
        isLoginWall == page.loginButton \/ page.dialogLoginLink
        isRateLimited == MatchesAny(bodyTextLower, RateLimitPatterns) # {}
        errs == MatchesAny(bodyTextLower, ErrorPatterns)
        isErrorPage == errs # {}
        hasMainContent == page.mainChildren
        isEmpty == IsEmpty(page.postLinkCount, hasMainContent,
                           TrimmedLength(page.body))
    IN  [isLoginWall |-> isLoginWall,
         isErrorPage |-> isErrorPage,
         isRateLimited |-> isRateLimited,
         isEmpty |-> isEmpty,
         hasMainContent |-> hasMainContent,
         postLinkCount |-> page.postLinkCount,
         errorMessage |-> ErrorMessage(isRateLimited, errs)]

\* page-helpers.ts 386-392: isNotFoundPage
IsNotFoundPage(page) == page.notFoundText

\* page-helpers.ts 306-318: handlePageError; what it throws, or "returns"
HandlePageErrorLoginWallFirst(info) ==
    IF info.isLoginWall THEN "LoginRequired"
    ELSE IF info.isRateLimited THEN "RateLimitError"
    ELSE IF info.isErrorPage THEN "PlatformError"
    ELSE "returns"

HandlePageError(info) ==
    IF info.isRateLimited THEN "RateLimitError"
    ELSE IF info.isLoginWall THEN "LoginRequired"
    ELSE IF info.isErrorPage THEN "PlatformError"
    ELSE "returns"

\* search.ts 143-167 and hashtag.ts 150-172: the catch block of the wait
SearchFallbackIgnoresLoginWall(info) ==
    IF info.isErrorPage THEN "PlatformError"
    ELSE "returned"
SearchFallback(info) ==
    IF info.isLoginWall THEN "LoginRequired"
    ELSE IF info.isErrorPage THEN "PlatformError"
    ELSE "returned"

\* profile.ts 128-146 and the post action 101-119: the catch block of the wait
ProfileFallbackReturnsOnPlainPage(info, page) ==
    IF info.isLoginWall \/ info.isErrorPage THEN HandlePageError(info)
    ELSE IF IsNotFoundPage(page) THEN "NotFound"
    ELSE "returned"

ProfileFallback(info, page) ==
    LET onLoginWall == IF info.isLoginWall THEN HandlePageError(info)
                       ELSE "returns"
        onErrorPage == IF info.isErrorPage THEN HandlePageError(info)
                       ELSE "returns"
    IN  IF onLoginWall # "returns" THEN onLoginWall
        ELSE IF onErrorPage # "returns" THEN onErrorPage
        ELSE IF IsNotFoundPage(page) THEN "NotFound"
        ELSE "FailedToLoad"

Fallback(action, info, page) ==
    IF action \in {"search", "hashtag"} THEN SearchFallback(info)
    ELSE ProfileFallback(info, page)

\* the element the handler waits for: h1 in the profile action, a post link
\* in the others
AwaitedPresent(action, page) ==
    IF action = "profile" THEN page.h1 ELSE page.postLinkCount > 0

HandlerActions == {"search", "hashtag", "profile", "post"}

Pages ==
    [body : SeqsUpTo(BodyFragments, MaxBody), loginButton : BOOLEAN,
     dialogLoginLink : BOOLEAN, mainChildren : BOOLEAN,
     postLinkCount : 0..MaxPostLinks, h1 : BOOLEAN, notFoundText : BOOLEAN]

\* the ways a handler ends with an error
Errors ==
    {"RateLimitError", "LoginRequired", "PlatformError", "NotFound",
     "FailedToLoad"}

NoInfo ==
    [isLoginWall |-> FALSE, isErrorPage |-> FALSE, isRateLimited |-> FALSE,
     isEmpty |-> FALSE, hasMainContent |-> FALSE, postLinkCount |-> 0,
     errorMessage |-> "Unknown error"]

NoPage ==
    [body |-> <<>>, loginButton |-> FALSE, dialogLoginLink |-> FALSE,
     mainChildren |-> FALSE, postLinkCount |-> 0, h1 |-> FALSE,
     notFoundText |-> FALSE]

\* ---------------------------------------------------------- scrollForPosts
MaxIds == 2            \* number of distinct post ids the document may show

\* page-helpers.ts 173-175
MAX_NO_NEW_CONTENT == 4
SCROLL_DELAY == 2000
GLOBAL_TIMEOUT == 45000

\* page-helpers.ts 172: the cap of Math.min
AttemptsCeiling == 20

\* page-helpers.ts 207-210: the three scroll steps and their wait
ScrollSteps == 3
StepDelay == 300

Min(a, b) == IF a <= b THEN a ELSE b

\* Math.ceil(a / b) for integers a >= 0, b > 0
CeilDiv(a, b) == (a + b - 1) \div b

\* page-helpers.ts 172: const maxAttempts
MaxAttemptsPlusOne(maxItems) ==
    Min(AttemptsCeiling, CeilDiv(maxItems, 5) + 5) + 1
MaxAttempts(maxItems) == Min(AttemptsCeiling, CeilDiv(maxItems, 5) + 5)

\* page-helpers.ts 197: the condition of the for loop
LoopContinuesWithoutProgress(i, noNew, maxItems) == i < MaxAttempts(maxItems)

LoopContinues(i, noNew, maxItems) ==
    i < MaxAttempts(maxItems) /\ noNew < MAX_NO_NEW_CONTENT

\* page-helpers.ts 199: Date.now() - startTime > GLOBAL_TIMEOUT
TimedOutNever(elapsed) == FALSE
TimedOut(elapsed) == elapsed > GLOBAL_TIMEOUT

\* page-helpers.ts 245: currentIds.forEach((id) => seenPostIds.add(id))
AddAllReplaces(seen, ids) == ids
AddAll(seen, ids) == seen \cup ids

\* page-helpers.ts 247-253: the no-progress counter after a cycle
NoNewAfterNeverResets(noNew, previousSize, size) ==
    IF size = previousSize THEN noNew + 1 ELSE noNew

NoNewAfter(noNew, previousSize, size) ==
    IF size = previousSize THEN noNew + 1 ELSE 0

\* page-helpers.ts 256: seenPostIds.size >= maxItems * 1.5
EnoughAtTarget(size, maxItems) == size >= maxItems
Enough(size, maxItems) == 2 * size >= 3 * maxItems

\* the ids a[href*="/post/"] may carry, and the maxItems values explored
PageIds == 1..MaxIds

ScrollTargets == {0, 1, 2, 30, 100}

\* how long one cycle may take: its fixed waits alone (the scroll steps and
\* SCROLL_DELAY), or a third of GLOBAL_TIMEOUT when the spinner and the page
\* are slow
CycleDurations ==
    {ScrollSteps * StepDelay + SCROLL_DELAY, GLOBAL_TIMEOUT \div 3}

\* scrollForPosts is not called
ScrollIdle ==
    /\ sMaxItems = 0
    /\ sPc = "idle"
    /\ sI = 0
    /\ scrollCount = 0
    /\ noNewContentCount = 0
    /\ seenPostIds = {}
    /\ sElapsed = 0
    /\ sCycleSets = {}
    /\ sGains = <<>>
    /\ sStop = "none"

\* ------------------------------------------------------- the validators
MaxContent == 4        \* longest post.content explored, in characters
MaxPosts == 2          \* number of distinct post ids a page may show

\* JavaScript's null
Null == [set |-> FALSE, null |-> TRUE]

\* `!x` for an optional string: undefined, null or the empty string
Falsy(x) == ~x.set \/ x.val = ""

\* post.content is a sequence of characters; the other strings of a record
\* are told apart only by being empty, 'unknown' or something else
Contents == {Undef} \cup {Some(c) : c \in SeqsUpTo({"x"}, MaxContent)}

AuthorUsernames == {Undef, Some(""), Some("unknown"), Some("johndoe")}

Timestamps == {Undef, Some(""), Some("2025-12-04T10:14:34.000Z")}

PostIds == 1..MaxPosts

\* types.ts: ThreadsPost, the fields the validator and the handlers read
Posts ==
    [id : PostIds, content : Contents, username : AuthorUsernames,
     timestamp : Timestamps]

OptionalStrings == {Undef, Some(""), Some("text")}

NullableStrings == {Undef, Null, Some(""), Some("text")}

\* types.ts: ProfileData, the fields the validator reads
Profiles ==
    [username : OptionalStrings, displayName : OptionalStrings,
     avatarUrl : OptionalStrings,
     followersCount : {Undef, Some(0), Some(5417000)},
     bio : OptionalStrings, location : NullableStrings,
     joinedDate : NullableStrings]

PostResult(valid, reason) == [valid |-> valid, reason |-> reason]

\* page-helpers.ts 269-280: validatePost
ValidatePostAuthorFirst(post) ==
    IF Falsy(post.username) \/ post.username.val = "unknown"
    THEN PostResult(FALSE, Some("noAuthor"))
    ELSE IF ~post.content.set \/ Len(post.content.val) = 0
              \/ Len(post.content.val) < 3
    THEN PostResult(FALSE, Some("noContent"))
    ELSE IF Falsy(post.timestamp)
    THEN PostResult(FALSE, Some("noTimestamp"))
    ELSE PostResult(TRUE, Undef)
ValidatePost(post) ==
    IF ~post.content.set \/ Len(post.content.val) = 0
         \/ Len(post.content.val) < 3
    THEN PostResult(FALSE, Some("noContent"))
    ELSE IF Falsy(post.username) \/ post.username.val = "unknown"
    THEN PostResult(FALSE, Some("noAuthor"))
    ELSE IF Falsy(post.timestamp)
    THEN PostResult(FALSE, Some("noTimestamp"))
    ELSE PostResult(TRUE, Undef)

\* `if (cond) missing.push(name)`
PushIf(cond, missing, name) == IF cond THEN Append(missing, name) ELSE missing

\* `x === null || x === undefined`
IsNullish(x) == x = Null \/ x = Undef

\* page-helpers.ts 286-301: validateProfile
ValidateProfileFalsyLocation(profile) ==
    IF Falsy(profile.username)
    THEN [valid |-> FALSE, reason |-> Some("noUsername"), partial |-> Undef,
          missing |-> Undef]
    ELSE LET m1 == PushIf(Falsy(profile.displayName), <<>>, "displayName")
             m2 == PushIf(Falsy(profile.avatarUrl), m1, "avatarUrl")
             m3 == PushIf(profile.followersCount = Undef, m2,
                          "followersCount")
             m4 == PushIf(Falsy(profile.bio), m3, "bio")
             m5 == PushIf(Falsy(profile.location), m4, "location")
             m6 == PushIf(IsNullish(profile.joinedDate), m5, "joinedDate")
         IN  [valid |-> TRUE, reason |-> Undef, partial |-> Some(Len(m6) > 0),
              missing |-> Some(m6)]
ValidateProfile(profile) ==
    IF Falsy(profile.username)
    THEN [valid |-> FALSE, reason |-> Some("noUsername"), partial |-> Undef,
          missing |-> Undef]
    ELSE LET m1 == PushIf(Falsy(profile.displayName), <<>>, "displayName")
             m2 == PushIf(Falsy(profile.avatarUrl), m1, "avatarUrl")
             m3 == PushIf(profile.followersCount = Undef, m2,
                          "followersCount")
             m4 == PushIf(Falsy(profile.bio), m3, "bio")
             m5 == PushIf(IsNullish(profile.location), m4, "location")
             m6 == PushIf(IsNullish(profile.joinedDate), m5, "joinedDate")
         IN  [valid |-> TRUE, reason |-> Undef, partial |-> Some(Len(m6) > 0),
              missing |-> Some(m6)]

NoValidation == [kind |-> "none"]

\* no validator is called
ValidateIdle ==
    /\ vInput = NoValidation
    /\ vPc = "idle"
    /\ vResult = NoValidation

\* ------------------------------------------ the handlers after the wait
\* a post the extractor parsed without a defect
GoodPost(id) ==
    [id |-> id, content |-> Some(<<"x", "x", "x">>),
     username |-> Some("johndoe"),
     timestamp |-> Some("2025-12-04T10:14:34.000Z")]

\* the posts extractPostsFromPage may parse: per id a good one and one for
\* each defect validatePost looks for
PagePosts ==
    UNION {{GoodPost(id),
            [GoodPost(id) EXCEPT !.content = Some(<<"x", "x">>)],
            [GoodPost(id) EXCEPT !.username = Some("unknown")],
            [GoodPost(id) EXCEPT !.timestamp = Some("")]} : id \in PostIds}

\* selectors.ts 102-171: extractPostsFromPage returns at most maxItems
\* posts, one per post id
ExtractedLists(maxItems) ==
    {l \in SeqsUpTo(PagePosts, Min(MaxPosts, maxItems)) :
        \A i, j \in 1..Len(l) : l[i].id = l[j].id => i = j}

\* selectors.ts 795-804: what extractProfileFromPage returns; location,
\* joinedDate, partial and missingFields are not set there
PageProfiles ==
    [username : {Some(""), Some("text")}, displayName : {Some("text")},
     avatarUrl : {Undef, Some("text")}, followersCount : {Some(0)},
     bio : {Some("text")}, location : {Undef}, joinedDate : {Undef},
     partial : {Undef}, missingFields : {Undef}]

\* what fetchProfileAbout resolves with (a rejection is handled like a
\* response without data)
AboutResponses ==
    {[data |-> FALSE, location |-> Null, joinedDate |-> Null]}
      \cup [data : {TRUE}, location : {Null, Some("text")},
            joinedDate : {Some("text")}]

\* profile.ts 169-185: location and joinedDate after the About fetch
WithAbout(profile, resp) ==
    IF resp.data
    THEN [profile EXCEPT !.location = resp.location,
                         !.joinedDate = resp.joinedDate]
    ELSE [profile EXCEPT !.location = Null, !.joinedDate = Null]

\* profile.ts 193-197: `if (validation.partial) { ... }`
WithValidation(profile, validation) ==
    IF validation.partial.val
    THEN [profile EXCEPT !.partial = Some(TRUE),
                         !.missingFields = validation.missing]
    ELSE profile

\* the argument of Dataset.pushData for a post: the action that pushed it
\* and the `source` and `parentId` it was given
PostRecord(action, post, source, parentId) ==
    [type |-> "post", action |-> action, post |-> post, source |-> source,
     parentId |-> parentId]

\* profile.ts 200: { ...profileData, type: 'profile', source: 'profile' }
ProfileRecord(profile) ==
    [type |-> "profile", action |-> "profile", profile |-> profile,
     source |-> Some("profile")]

\* the maxItems values explored for a handler
HandlerTargets == {1, MaxPosts}

\* the documents explored for a whole handler: with content, a login wall,
\* an error page, a not-found page, an empty page, a rate-limited login wall,
\* a rate-limited page that is neither empty nor a login wall nor an error page
HandlerPages ==
    {[NoPage EXCEPT !.postLinkCount = 1, !.h1 = TRUE],
     [NoPage EXCEPT !.loginButton = TRUE],
     [NoPage EXCEPT !.body = <<"blocked">>],
     [NoPage EXCEPT !.notFoundText = TRUE],
     NoPage,
     [NoPage EXCEPT !.body = <<"Too many requests">>, !.loginButton = TRUE],
     [NoPage EXCEPT !.body = <<"Too many requests", LongText>>,
                    !.mainChildren = TRUE]}

\* no request handler is past its wait
PipeIdle ==
    /\ pMaxItems = 0
    /\ pIncludePosts = FALSE
    /\ pPc = "idle"
    /\ pScrollCalls = 0
    /\ pExtractCalls = 0
    /\ pPosts = <<>>
    /\ pNext = 1
    /\ seenIds = {}
    /\ collected = 0
    /\ profileData = Undef
    /\ postData = Undef
    /\ dataset = <<>>
    /\ pOutcome = "none"

\* no parser is called
ParseIdle ==
    /\ fName = "none"
    /\ fText = <<>>
    /\ fPc = "idle"
    /\ fResult = Undef

\* no action call captures video responses
MediaIdle ==
    /\ mPc = <<>>
    /\ videoRequests = <<>>
    /\ scrollVideoRequests = <<>>
    /\ mListeners = {}
    /\ mWindow = <<>>
    /\ mResponses = <<>>

\* no cycle of scrollForPosts is followed await by await
CycleIdle ==
    /\ cPc = "idle"
    /\ cStep = 0
    /\ cLog = <<>>
    /\ cSeen = {}
    /\ cVideo = FALSE

\* extractPostsFromPage is not followed link by link
ExtractIdle ==
    /\ eLinks = <<>>
    /\ eMaxItems = [set |-> FALSE]
    /\ ePc = "idle"
    /\ eI = 1
    /\ ePosts = <<>>
    /\ eSeenIds = {}
    /\ eLookups = <<>>
    /\ eResult = [set |-> FALSE]

ExtraIdle == ParseIdle /\ MediaIdle /\ CycleIdle /\ ExtractIdle

\* scrollForPosts, the handlers' pipelines and the validators are not part
\* of the run
RestIdle == ScrollIdle /\ PipeIdle /\ ValidateIdle /\ ExtraIdle

\* no request handler is running
HandlerIdle ==
    /\ hAction = "search"
    /\ hPage = NoPage
    /\ hPc = "idle"
    /\ hInfo = NoInfo
    /\ hClassified = 0
    /\ hOutcome = "none"

\* the top-level code of main.ts is not part of the run
BatchIdle ==
    /\ input = NullInput
    /\ mainPc = "idle"
    /\ tasks = <<>>
    /\ queue = <<>>
    /\ active = 0
    /\ success = 0
    /\ fail = 0
    /\ errors = <<>>
    /\ workers = <<>>
    /\ invoked = <<>>
    /\ outcome = <<>>
    /\ summary = <<>>

\* ------------------------------------------------------------------- Init
Init ==
    /\ RetryIdle
    /\ HandlerIdle
    /\ RestIdle
    /\ input \in {NullInput} \cup BatchInputs \cup SingleInputs
    /\ mainPc = "start"
    /\ tasks = <<>>
    /\ queue = <<>>
    /\ active = 0
    /\ success = 0
    /\ fail = 0
    /\ errors = <<>>
    /\ workers = <<>>
    /\ invoked = <<>>
    /\ outcome = <<>>
    /\ summary = <<>>

\* ---------------------------------------------------------------- actions
\* main.ts 147-149: `if (!input) throw`, caught at 172-175 (Actor.fail)
NoInput ==
    /\ mainPc = "start"
    /\ input.type = "null"
    /\ mainPc' = "failed"
    /\ UNCHANGED <<input, tasks, queue, active, success, fail, errors,
                   workers, invoked, outcome, summary>>
    /\ UNCHANGED <<retryVars, handlerVars, restVars>>

\* main.ts 158-160 and 65-108: batch mode, runBatch up to the worker loop
StartBatch ==
    /\ mainPc = "start"
    /\ input.type # "null"
    /\ IsBatch(input)
    /\ tasks' = BuildTasks(input)
    /\ queue' = [i \in 1..Len(tasks') |-> i]
    /\ active' = 0
    /\ success' = 0
    /\ fail' = 0
    /\ errors' = <<>>
    /\ workers' = <<>>
    /\ invoked' = [i \in 1..Len(tasks') |-> 0]
    /\ outcome' = [i \in 1..Len(tasks') |-> "none"]
    /\ mainPc' = "spawn"
    /\ UNCHANGED <<input, summary>>
    /\ UNCHANGED <<retryVars, handlerVars, restVars>>

\* main.ts 131-132 with 110-116: one iteration of the worker loop; the
\* call runNext() runs synchronously up to `await task.fn()`
SpawnWorker ==
    /\ mainPc = "spawn"
    /\ Len(workers) < WorkerCount(Concurrency(input))
    /\ IF Len(queue) = 0
       THEN /\ workers' = Append(workers,
                            [st |-> "done", task |-> 0, err |-> FALSE])
            /\ UNCHANGED <<queue, active, invoked, outcome>>
       ELSE LET t == Head(queue) IN
            /\ queue' = Shift(queue)
            /\ active' = active + 1
            /\ invoked' = [invoked EXCEPT ![t] = @ + 1]
            /\ outcome' = [outcome EXCEPT ![t] = "running"]
            /\ workers' = Append(workers,
                            [st |-> "running", task |-> t, err |-> FALSE])
    /\ UNCHANGED <<input, mainPc, tasks, success, fail, errors, summary>>
    /\ UNCHANGED <<retryVars, handlerVars, restVars>>

\* main.ts 131, 134: the loop ends and runBatch awaits Promise.all(workers)
AwaitWorkers ==
    /\ mainPc = "spawn"
    /\ Len(workers) >= WorkerCount(Concurrency(input))
    /\ mainPc' = "await"
    /\ UNCHANGED <<input, tasks, queue, active, success, fail, errors,
                   workers, invoked, outcome, summary>>
    /\ UNCHANGED <<retryVars, handlerVars, restVars>>

\* main.ts 122-127 (finally) followed by the synchronous prefix 110-116 of
\* the nested runNext(): what worker w is after its task settled
AfterTask(w, threw, uncaught) ==
    LET e == workers[w].err \/ uncaught IN
    IF Continues(queue, threw) /\ Len(queue) > 0
    THEN LET t == Head(queue) IN
         /\ queue' = Shift(queue)
         /\ active' = (active - 1) + 1
         /\ invoked' = [invoked EXCEPT ![t] = @ + 1]
         /\ workers' = [workers EXCEPT ![w] =
                           [st |-> "running", task |-> t, err |-> e]]
    ELSE /\ active' = active - 1
         /\ workers' = [workers EXCEPT ![w] =
               [st |-> IF e THEN "rejected" ELSE "done", task |-> 0,
                err |-> e]]
         /\ UNCHANGED <<queue, invoked>>

\* running marks of the task started by AfterTask
StartedBy(w) ==
    IF workers'[w].st = "running" THEN {workers'[w].task} ELSE {}

\* main.ts 116-117 and 122-127: task.fn() of worker w resolved
TaskSucceeds(w) ==
    /\ mainPc = "await"
    /\ w \in 1..Len(workers)
    /\ workers[w].st = "running"
    /\ success' = success + 1
    /\ AfterTask(w, FALSE, FALSE)
    /\ outcome' = [t \in 1..Len(tasks) |->
                     IF t = workers[w].task /\ t \notin StartedBy(w) THEN "ok"
                     ELSE IF t \in StartedBy(w) THEN "running"
                     ELSE outcome[t]]
    /\ UNCHANGED <<input, mainPc, tasks, fail, errors, summary>>
    /\ UNCHANGED <<retryVars, handlerVars, restVars>>

\* main.ts 116, 118-127: task.fn() of worker w threw err
TaskFails(w, err) ==
    /\ mainPc = "await"
    /\ w \in 1..Len(workers)
    /\ workers[w].st = "running"
    /\ IF Catches(err)
       THEN /\ fail' = FailAfterCatch(fail)
            /\ errors' = PushError(errors, tasks[workers[w].task], err)
       ELSE UNCHANGED <<fail, errors>>
    /\ AfterTask(w, TRUE, ~Catches(err))
    /\ outcome' = [t \in 1..Len(tasks) |->
                     IF t = workers[w].task /\ t \notin StartedBy(w) THEN err
                     ELSE IF t \in StartedBy(w) THEN "running"
                     ELSE outcome[t]]
    /\ UNCHANGED <<input, mainPc, tasks, success, summary>>
    /\ UNCHANGED <<retryVars, handlerVars, restVars>>

\* main.ts 134-136: Promise.all(workers) settles; fulfilled: the summary is
\* logged and runBatch returns; rejected: runBatch throws into 172-175
BatchSettles ==
    /\ mainPc = "await"
    /\ PromiseAll(workers) # "pending"
    /\ IF PromiseAll(workers) = "fulfilled"
       THEN /\ summary' = Append(summary,
                              [total |-> Len(tasks), success |-> success,
                               fail |-> fail, errors |-> errors])
            /\ mainPc' = "completed"
       ELSE /\ mainPc' = "failed"
            /\ UNCHANGED summary
    /\ UNCHANGED <<input, tasks, queue, active, success, fail, errors,
                   workers, invoked, outcome>>
    /\ UNCHANGED <<retryVars, handlerVars, restVars>>

\* main.ts 161-165 and 172-175: single mode; validateInput or the action
\* may throw, which ends the run through Actor.fail
SingleRun ==
    /\ mainPc = "start"
    /\ input.type # "null"
    /\ ~IsBatch(input)
    /\ IF ~ValidateInputThrows(input)
       THEN mainPc' \in {"completed", "failed"}
       ELSE mainPc' = "failed"
    /\ UNCHANGED <<input, tasks, queue, active, success, fail, errors,
                   workers, invoked, outcome, summary>>
    /\ UNCHANGED <<retryVars, handlerVars, restVars>>

\* main.ts 168-171: 'Threads Toolkit completed', Actor.exit()
ActorExit ==
    /\ mainPc = "completed"
    /\ mainPc' = "exited"
    /\ UNCHANGED <<input, tasks, queue, active, success, fail, errors,
                   workers, invoked, outcome, summary>>
    /\ UNCHANGED <<retryVars, handlerVars, restVars>>

Next ==
    \/ NoInput
    \/ StartBatch
    \/ SpawnWorker
    \/ AwaitWorkers
    \/ \E w \in 1..(MaxConc + 2) : TaskSucceeds(w)
    \/ \E w \in 1..(MaxConc + 2), err \in ErrKinds : TaskFails(w, err)
    \/ BatchSettles
    \/ SingleRun
    \/ ActorExit

Spec == Init /\ [][Next]_vars

\* ------------------------------------------------- batch scheduler claims
InBatch == input.type = "batch" /\ IsBatch(input)

TaskIds == 1..Len(tasks)

Settled(t) == outcome[t] = "ok" \/ outcome[t] \in ErrKinds

Failed == {t \in TaskIds : outcome[t] \in ErrKinds}

Running == {w \in 1..Len(workers) : workers[w].st = "running"}

\* runBatch returned (or threw): the top-level code is past `await runBatch`
BatchOver == InBatch /\ mainPc \in {"completed", "exited", "failed"}

\* C1: over one run of runBatch every task's work function is invoked
\* exactly once: never twice at any moment, no two workers hold the same
\* task, and once the batch is over every task has been invoked once.
C1_EveryTaskExactlyOnce ==
    /\ \A t \in TaskIds : invoked[t] <= 1
    /\ \A v, w \in Running : workers[v].task = workers[w].task => v = w
    /\ BatchOver => \A t \in TaskIds : invoked[t] = 1

C1_Witness ==
    /\ mainPc = "completed"
    /\ Len(tasks) >= 3
    /\ Len(workers) = 2
    /\ fail >= 1
    /\ success >= 1

\* C2: when the 'Batch summary' is produced, success + fail equals total,
\* the number of tasks built from keywords, usernames, tags and postUrls.
C2_SuccessPlusFailIsTotal ==
    \A i \in 1..Len(summary) :
        /\ summary[i].success + summary[i].fail = summary[i].total
        /\ summary[i].total =
              Len(OrEmpty(input.keywords)) + Len(OrEmpty(input.usernames))
                + Len(OrEmpty(input.tags)) + Len(OrEmpty(input.postUrls))

C2_Witness ==
    /\ Len(summary) = 1
    /\ summary[1].fail >= 2
    /\ summary[1].success >= 1
    /\ Len(OrEmpty(input.keywords)) >= 1
    /\ Len(OrEmpty(input.postUrls)) >= 1

\* C3: a task that throws is caught and recorded and stops nothing else:
\* the step in which it fails leaves every other running worker running
\* and loses no queued task, the run is not aborted, and the batch is over
\* only when every task has run to completion.
C3_FailureIsolated ==
    [][/\ (\E t \in TaskIds : outcome[t] = "running" /\ outcome'[t] \in ErrKinds)
          => /\ fail' = fail + 1
             /\ Len(errors') = Len(errors) + 1
             /\ mainPc' = mainPc
             /\ \A w \in Running :
                   outcome'[workers[w].task] = "running"
                     => workers'[w] = workers[w]
             /\ \A i \in 1..Len(queue) :
                   \/ \E j \in 1..Len(queue') : queue'[j] = queue[i]
                   \/ outcome'[queue[i]] = "running"
       /\ (BatchOver /\ Failed # {})'
          => (mainPc # "failed" /\ \A t \in TaskIds : Settled(t))']_vars

C3_Witness ==
    /\ mainPc = "completed"
    /\ Len(tasks) >= 3
    /\ outcome[1] \in ErrKinds
    /\ outcome[2] = "ok"
    /\ outcome[3] = "ok"
    /\ Len(workers) = 1

\* C4: at every moment the number of executing tasks (`active`) is at most
\* `concurrency`, a concurrency below 1 counting as 1.
C4_ActiveAtMostConcurrency ==
    InBatch =>
        /\ active <= Max(1, Concurrency(input))
        /\ active = Cardinality(Running)
        /\ active = Cardinality({t \in TaskIds : outcome[t] = "running"})

C4_Witness ==
    /\ InBatch
    /\ Concurrency(input) = 2
    /\ active = 2
    /\ Len(queue) >= 1
    /\ success + fail >= 1

\* C5: the 'Batch summary' is produced and runBatch returns only after every
\* task has finished: the queue is empty and no task is executing.
C5_SummaryAfterAllFinished ==
    (Len(summary) > 0 \/ (InBatch /\ mainPc \in {"completed", "exited"}))
        => /\ queue = <<>>
           /\ active = 0
           /\ Running = {}
           /\ \A t \in TaskIds : Settled(t)

C5_Witness ==
    /\ Len(summary) = 1
    /\ Len(workers) >= 2
    /\ Len(tasks) > Len(workers)

\* The entry a failed task t is recorded with
EntryOf(t) == [name |-> tasks[t], error |-> outcome[t]]

\* An entry list holds exactly one entry per task of F and nothing else:
\* every entry occurs as often as there are tasks of F it is the entry of
\* (two tasks may bear the same name)
OneEntryPerTask(errs, F) ==
    \A e \in {errs[i] : i \in 1..Len(errs)} \cup {EntryOf(t) : t \in F} :
        Cardinality({i \in 1..Len(errs) : errs[i] = e})
          = Cardinality({t \in F : EntryOf(t) = e})

\* C6: after runBatch completes the failure list holds exactly one entry per
\* failed task, naming it, and none for a successful task; its length is
\* fail = |F| and success = total - |F|.
C6_FailureListMatchesFailedTasks ==
    \A i \in 1..Len(summary) :
        /\ OneEntryPerTask(summary[i].errors, Failed)
        /\ Len(summary[i].errors) = summary[i].fail
        /\ summary[i].fail = Cardinality(Failed)
        /\ summary[i].success = summary[i].total - Cardinality(Failed)

\* 5 tasks, concurrency 2, task 3 failing
C6_Witness ==
    /\ Len(summary) = 1
    /\ Len(tasks) = 5
    /\ Concurrency(input) = 2
    /\ Failed = {3}
    /\ summary[1].total = 5
    /\ summary[1].success = 4
    /\ summary[1].fail = 1
    /\ Len(summary[1].errors) = 1
    /\ summary[1].errors[1].name = tasks[3]

\* C7: in batch mode task failures never make the run fail: runBatch returns
\* and the run ends through Actor.exit, never through Actor.fail.
C7_BatchNeverFailsTheRun ==
    InBatch => mainPc # "failed"

C7_Witness ==
    /\ InBatch
    /\ mainPc = "exited"
    /\ Len(tasks) >= 2
    /\ Failed = TaskIds

\* ------------------------------------------------------ withRateLimitRetry
InitRetry ==
    /\ BatchIdle
    /\ HandlerIdle
    /\ RestIdle
    /\ rConfig \in RetryConfigs
    /\ rPc = "start"
    /\ attempt = 0
    /\ lastError = NoError
    /\ rCalls = 0
    /\ rSleeps = <<>>
    /\ rFnLog = <<>>
    /\ rResult = [type |-> "none"]

\* page-helpers.ts 342-346: the loop is entered and fn() is invoked; with no
\* attempt to make, 367-369 throw lastError
RetryEnter ==
    /\ rPc = "start"
    /\ attempt' = 0
    /\ IF 0 <= MaxRetriesOf(rConfig)
       THEN /\ rPc' = "calling"
            /\ rCalls' = rCalls + 1
            /\ UNCHANGED rResult
       ELSE /\ rPc' = "thrown"
            /\ rResult' = [type |-> "error", error |-> lastError]
            /\ UNCHANGED rCalls
    /\ UNCHANGED <<rConfig, lastError, rSleeps, rFnLog>>
    /\ UNCHANGED <<batchVars, handlerVars, restVars>>

\* page-helpers.ts 346: `return await fn()`, what withRateLimitRetry resolves
\* with when fn() resolved with v
ResolvedWithUndefined(v) == [type |-> "value", value |-> "undefined"]

Resolved(v) == [type |-> "value", value |-> v]

\* page-helpers.ts 346: `return await fn()`, fn() resolved with v; the log
\* keeps the value
FnReturns(v) ==
    /\ rPc = "calling"
    /\ rFnLog' = Append(rFnLog, v)
    /\ rResult' = Resolved(v)
    /\ rPc' = "returned"
    /\ UNCHANGED <<rConfig, attempt, lastError, rCalls, rSleeps>>
    /\ UNCHANGED <<batchVars, handlerVars, restVars>>

\* page-helpers.ts 347-364 and 367-369: fn() threw an error of class kind
FnThrows(kind) ==
    /\ rPc = "calling"
    /\ LET e == [kind |-> kind, call |-> rCalls] IN
       /\ lastError' = e
       /\ rFnLog' = Append(rFnLog, kind)
       /\ IF ~IsRateLimitError(e)
          THEN /\ rPc' = "thrown"
               /\ rResult' = [type |-> "error", error |-> e]
               /\ UNCHANGED <<attempt, rSleeps>>
          ELSE IF attempt < MaxRetriesOf(rConfig)
          THEN /\ rPc' = "sleeping"
               /\ rSleeps' = Append(rSleeps, Delay(rConfig, attempt))
               /\ UNCHANGED <<attempt, rResult>>
          ELSE /\ attempt' = attempt + 1
               /\ rPc' = "thrown"
               /\ rResult' = [type |-> "error", error |-> e]
               /\ UNCHANGED rSleeps
    /\ UNCHANGED <<rConfig, rCalls>>
    /\ UNCHANGED <<batchVars, handlerVars, restVars>>

\* page-helpers.ts 362, 344-346: sleep(delay) is over, attempt++, and fn() is
\* invoked again
SleepEnds ==
    /\ rPc = "sleeping"
    /\ attempt' = attempt + 1
    /\ rCalls' = rCalls + 1
    /\ rPc' = "calling"
    /\ UNCHANGED <<rConfig, lastError, rSleeps, rFnLog, rResult>>
    /\ UNCHANGED <<batchVars, handlerVars, restVars>>

NextRetry ==
    \/ RetryEnter
    \/ \E v \in FnValues : FnReturns(v)
    \/ \E kind \in FnErrKinds : FnThrows(kind)
    \/ SleepEnds

SpecRetry == InitRetry /\ [][NextRetry]_vars

\* C8: a failure of the operation that is not a rate-limit signal is
\* propagated at once as the same error: the step in which fn() throws it
\* ends withRateLimitRetry with that error, adds no sleep and no invocation,
\* and one sleep has happened per earlier rate-limit failure, none after it.
C8_OtherFailurePropagatesAtOnce ==
    [][/\ (Len(rFnLog') = Len(rFnLog) + 1 /\ rFnLog'[Len(rFnLog')] = "Error")
          => /\ rPc' = "thrown"
             /\ rResult' = [type |-> "error",
                            error |-> [kind |-> "Error", call |-> rCalls]]
             /\ rSleeps' = rSleeps
             /\ rCalls' = rCalls
             /\ rCalls' = Len(rFnLog')
             /\ Len(rSleeps') = Len(rFnLog') - 1
       /\ (rPc = "thrown" \/ (rFnLog # <<>> /\ rFnLog[Len(rFnLog)] = "Error"))
          => (rCalls' = rCalls /\ rSleeps' = rSleeps /\ rResult' = rResult)
      ]_vars

C8_Witness ==
    /\ rPc = "thrown"
    /\ rFnLog = <<"RateLimitError", "RateLimitError", "Error">>
    /\ Len(rSleeps) = 2
    /\ rCalls = 3

\* C9: the sleep after the rate-limit failure of attempt k is backoffDelay *
\* backoffMultiplier^k: the first sleep is backoffDelay, each later one is
\* the one before times backoffMultiplier, every sleep follows a rate-limit
\* failure of the attempt of the same index, and with the default
\* configuration the sleeps are 5000, 10000, 20000.
C9_BackoffDelays ==
    /\ \A i \in 1..Len(rSleeps) :
          /\ rSleeps[i] = IF i = 1 THEN BackoffDelayOf(rConfig)
                          ELSE rSleeps[i - 1] * BackoffMultiplierOf(rConfig)
          /\ rFnLog[i] = "RateLimitError"
          /\ i <= MaxRetriesOf(rConfig)
    /\ rPc = "sleeping" => Len(rSleeps) = attempt + 1
    /\ (rPc # "idle" /\ ~rConfig.maxRetries.set /\ ~rConfig.backoffDelay.set
          /\ ~rConfig.backoffMultiplier.set)
         => \A i \in 1..Len(rSleeps) : rSleeps[i] = <<5000, 10000, 20000>>[i]

C9_Witness ==
    /\ ~rConfig.maxRetries.set
    /\ ~rConfig.backoffDelay.set
    /\ ~rConfig.backoffMultiplier.set
    /\ rSleeps = <<5000, 10000, 20000>>
    /\ rPc = "thrown"

\* ------------------------------------- the wait for content and its fallback
InitHandler ==
    /\ BatchIdle
    /\ RetryIdle
    /\ RestIdle
    /\ hAction \in HandlerActions
    /\ hPage \in Pages
    /\ hPc = "waiting"
    /\ hInfo = NoInfo
    /\ hClassified = 0
    /\ hOutcome = "none"

\* search.ts 129-142 (hashtag.ts 136-149, profile.ts 126-128, post 87-100):
\* the awaited element appeared and the handler goes on to its pipeline
WaitFinds ==
    /\ hPc = "waiting"
    /\ AwaitedPresent(hAction, hPage)
    /\ hPc' = "done"
    /\ hOutcome' = "proceed"
    /\ UNCHANGED <<hAction, hPage, hInfo, hClassified>>
    /\ UNCHANGED <<batchVars, retryVars, restVars>>

\* search.ts 129, 143: waitForSelector timed out (the element may still show
\* up later, in the document the classifier sees)
WaitTimesOut ==
    /\ hPc = "waiting"
    /\ hPc' = "timedOut"
    /\ UNCHANGED <<hAction, hPage, hInfo, hClassified, hOutcome>>
    /\ UNCHANGED <<batchVars, retryVars, restVars>>

\* search.ts 132-143 (hashtag.ts 139-150, post 90-101): the awaited element
\* appeared, and page.waitForTimeout or the page.evaluate that injects the
\* captured video URLs rejected (the page closed or navigated away). Both
\* stand inside the try block of the wait, so its catch block is entered.
\* The try block of profile.ts 126-128 holds the wait only.
AfterWaitThrows ==
    /\ hPc = "waiting"
    /\ hAction # "profile"
    /\ AwaitedPresent(hAction, hPage)
    /\ hPc' = "caught"
    /\ UNCHANGED <<hAction, hPage, hInfo, hClassified, hOutcome>>
    /\ UNCHANGED <<batchVars, retryVars, restVars>>

\* search.ts 143-145 (hashtag.ts 150-152, profile.ts 129-130, post 101-103):
\* the catch block, entered by whatever the try block threw
Classify ==
    /\ hPc \in {"timedOut", "caught"}
    /\ hInfo' = DetectPageError(hPage)
    /\ hClassified' = hClassified + 1
    /\ hPc' = "classified"
    /\ UNCHANGED <<hAction, hPage, hOutcome>>
    /\ UNCHANGED <<batchVars, retryVars, restVars>>

\* search.ts 147-166 (hashtag.ts 154-171, profile.ts 132-145, post 105-118)
FallsBack ==
    /\ hPc = "classified"
    /\ hOutcome' = Fallback(hAction, hInfo, hPage)
    /\ hPc' = "done"
    /\ UNCHANGED <<hAction, hPage, hInfo, hClassified>>
    /\ UNCHANGED <<batchVars, retryVars, restVars>>

NextHandler ==
    \/ WaitFinds
    \/ WaitTimesOut
    \/ AfterWaitThrows
    \/ Classify
    \/ FallsBack

SpecHandler == InitHandler /\ [][NextHandler]_vars

\* C10: when the page is classified as rate limited after the wait for
\* content timed out, the task raises a rate-limit failure (which the retry
\* policy then retries with exponential backoff), in each of the four
\* actions.
C10_RateLimitedRaisesRateLimitFailure ==
    (hPc = "done" /\ hClassified > 0 /\ hInfo.isRateLimited)
        => hOutcome = "RateLimitError"

\* --------------------------------------------- a request handler as a whole
InitPipeline ==
    /\ BatchIdle
    /\ RetryIdle
    /\ ScrollIdle
    /\ ValidateIdle
    /\ ExtraIdle
    /\ hAction \in HandlerActions
    /\ hPage \in HandlerPages
    /\ hPc = "waiting"
    /\ hInfo = NoInfo
    /\ hClassified = 0
    /\ hOutcome = "none"
    /\ pMaxItems \in HandlerTargets
    /\ pIncludePosts \in (IF hAction = "profile" THEN BOOLEAN ELSE {TRUE})
    /\ pPc = "ready"
    /\ pScrollCalls = 0
    /\ pExtractCalls = 0
    /\ pPosts = <<>>
    /\ pNext = 1
    /\ seenIds = {}
    /\ collected = 0
    /\ profileData = Undef
    /\ postData = Undef
    /\ dataset = <<>>
    /\ pOutcome = "none"

\* the wait for content succeeded and the handler goes on
Proceeds == hPc = "done" /\ hOutcome = "proceed"

\* the handler is about to call scrollForPosts: search.ts 170 and
\* hashtag.ts 175 right after the wait, profile.ts 215 and post 141 later
AtScroll ==
    /\ Proceeds
    /\ \/ pPc = "scroll"
       \/ pPc = "ready" /\ hAction \in {"search", "hashtag"}

\* the handler returns (pOutcome "returned") or throws
HandlerEnds(how) ==
    /\ pPc' = "done"
    /\ pOutcome' = how

\* search.ts 170 (hashtag.ts 175, profile.ts 215, post 141): scrollForPosts
\* returned
ScrollReturns ==
    /\ AtScroll
    /\ pScrollCalls' = pScrollCalls + 1
    /\ pPc' = "extract"
    /\ UNCHANGED <<pMaxItems, pIncludePosts, pExtractCalls, pPosts, pNext,
                   seenIds, collected, profileData, postData, dataset,
                   pOutcome>>
    /\ UNCHANGED <<batchVars, retryVars, handlerVars, scrollVars,
                   validateVars, extraVars>>

\* scrollForPosts threw: search.ts 170 and hashtag.ts 175 let the error leave
\* the handler, profile.ts 228-230 and post 148-150 catch it and log
ScrollThrowsUncaught ==
    /\ AtScroll
    /\ pScrollCalls' = pScrollCalls + 1
    /\ HandlerEnds("ScrollFailed")
    /\ UNCHANGED <<pMaxItems, pIncludePosts, pExtractCalls, pPosts, pNext,
                   seenIds, collected, profileData, postData, dataset>>
    /\ UNCHANGED <<batchVars, retryVars, handlerVars, scrollVars,
                   validateVars, extraVars>>

ScrollThrows ==
    /\ AtScroll
    /\ pScrollCalls' = pScrollCalls + 1
    /\ HandlerEnds(IF hAction \in {"search", "hashtag"} THEN "ScrollFailed"
                   ELSE "returned")
    /\ UNCHANGED <<pMaxItems, pIncludePosts, pExtractCalls, pPosts, pNext,
                   seenIds, collected, profileData, postData, dataset>>
    /\ UNCHANGED <<batchVars, retryVars, handlerVars, scrollVars,
                   validateVars, extraVars>>

\* search.ts 173 (hashtag.ts 178, profile.ts 216, post 142):
\* extractPostsFromPage returned one of the lists it may return
ExtractPosts ==
    /\ Proceeds
    /\ pPc = "extract"
    /\ pPosts' \in ExtractedLists(pMaxItems)
    /\ pNext' = 1
    /\ pExtractCalls' = pExtractCalls + 1
    /\ pPc' = "loop"
    /\ UNCHANGED <<pMaxItems, pIncludePosts, pScrollCalls, seenIds,
                   collected, profileData, postData, dataset, pOutcome>>
    /\ UNCHANGED <<batchVars, retryVars, handlerVars, scrollVars,
                   validateVars, extraVars>>

\* extractPostsFromPage threw (selectors.ts 108 and 127 await the page
\* outside any try block): search.ts 173 and hashtag.ts 178 let the error
\* leave the handler, profile.ts 228-230 and post 148-150 catch it and log
ExtractThrows ==
    /\ Proceeds
    /\ pPc = "extract"
    /\ pExtractCalls' = pExtractCalls + 1
    /\ HandlerEnds(IF hAction \in {"search", "hashtag"} THEN "ExtractFailed"
                   ELSE "returned")
    /\ UNCHANGED <<pMaxItems, pIncludePosts, pScrollCalls, pPosts, pNext,
                   seenIds, collected, profileData, postData, dataset>>
    /\ UNCHANGED <<batchVars, retryVars, handlerVars, scrollVars,
                   validateVars, extraVars>>

\* `continue`, or the end of an iteration that pushed nothing
NextPost ==
    /\ pNext' = pNext + 1
    /\ UNCHANGED <<pPc, pOutcome, seenIds, collected, dataset>>

\* an iteration ends with Dataset.pushData(record)
PushPost(record) ==
    /\ dataset' = Append(dataset, record)
    /\ pNext' = pNext + 1
    /\ UNCHANGED <<pPc, pOutcome>>

\* search.ts 178-195 and hashtag.ts 183-200: one iteration of the loop
SearchIterationNoGuards(post) ==
    IF ~ValidatePost(post).valid THEN NextPost
    ELSE /\ seenIds' = seenIds \cup {post.id}
         /\ collected' = collected + 1
         /\ PushPost(PostRecord(hAction, post, Undef, Undef))

SearchIteration(post) ==
    IF collected >= pMaxItems
    THEN HandlerEnds("returned") /\ UNCHANGED <<pNext, seenIds, collected,
                                                dataset>>
    ELSE IF post.id \in seenIds THEN NextPost
    ELSE IF ~ValidatePost(post).valid THEN NextPost
    ELSE /\ seenIds' = seenIds \cup {post.id}
         /\ collected' = collected + 1
         /\ PushPost(PostRecord(hAction, post, Undef, Undef))

\* profile.ts 218-226: one iteration of the loop
ProfilePostIteration(post) ==
    IF ~ValidatePost(post).valid THEN NextPost
    ELSE /\ PushPost(PostRecord(hAction, post, Some("profile_posts"), Undef))
         /\ UNCHANGED <<seenIds, collected>>

\* post 143-146: one iteration of the loop
ReplyIterationKeepsMainPost(reply) ==
    /\ PushPost(PostRecord(hAction, reply, Some("reply"),
                           Some(postData.val.id)))
    /\ UNCHANGED <<seenIds, collected>>

ReplyIteration(reply) ==
    IF reply.id = postData.val.id THEN NextPost
    ELSE /\ PushPost(PostRecord(hAction, reply, Some("reply"),
                                Some(postData.val.id)))
         /\ UNCHANGED <<seenIds, collected>>

\* one iteration of the for...of loop over the extracted posts, or its end
LoopStep ==
    /\ Proceeds
    /\ pPc = "loop"
    /\ IF pNext > Len(pPosts)
       THEN HandlerEnds("returned") /\ UNCHANGED <<pNext, seenIds, collected,
                                                   dataset>>
       ELSE IF hAction \in {"search", "hashtag"}
       THEN SearchIteration(pPosts[pNext])
       ELSE IF hAction = "profile" THEN ProfilePostIteration(pPosts[pNext])
       ELSE ReplyIteration(pPosts[pNext])
    /\ UNCHANGED <<pMaxItems, pIncludePosts, pScrollCalls, pExtractCalls,
                   pPosts, profileData, postData>>
    /\ UNCHANGED <<batchVars, retryVars, handlerVars, scrollVars,
                   validateVars, extraVars>>

\* profile.ts 149: extractProfileFromPage returned the profile pd
ExtractProfile(pd) ==
    /\ Proceeds
    /\ hAction = "profile"
    /\ pPc = "ready"
    /\ profileData' = Some(pd)
    /\ pExtractCalls' = pExtractCalls + 1
    /\ pPc' = "about"
    /\ UNCHANGED <<pMaxItems, pIncludePosts, pScrollCalls, pPosts, pNext,
                   seenIds, collected, postData, dataset, pOutcome>>
    /\ UNCHANGED <<batchVars, retryVars, handlerVars, scrollVars,
                   validateVars, extraVars>>

\* profile.ts 149-153 and post 122-126: the extractor returned null and the
\* handler throws 'Failed to extract'
ExtractReturnsNull ==
    /\ Proceeds
    /\ hAction \in {"profile", "post"}
    /\ pPc = "ready"
    /\ pExtractCalls' = pExtractCalls + 1
    /\ HandlerEnds("ExtractFailed")
    /\ UNCHANGED <<pMaxItems, pIncludePosts, pScrollCalls, pPosts, pNext,
                   seenIds, collected, profileData, postData, dataset>>
    /\ UNCHANGED <<batchVars, retryVars, handlerVars, scrollVars,
                   validateVars, extraVars>>

\* profile.ts 158-204: fetchProfileAbout settled with resp; the profile is
\* validated, marked and pushed, and the handler goes on to the posts when
\* includePosts is set
FetchAbout(resp) ==
    /\ Proceeds
    /\ pPc = "about"
    /\ LET pd == WithAbout(profileData.val, resp)
           validation == ValidateProfile(pd)
           marked == WithValidation(pd, validation)
       IN  IF ~validation.valid
           THEN /\ profileData' = Some(pd)
                /\ HandlerEnds("returned")
                /\ UNCHANGED dataset
           ELSE /\ profileData' = Some(marked)
                /\ dataset' = Append(dataset, ProfileRecord(marked))
                /\ IF pIncludePosts
                   THEN pPc' = "scroll" /\ UNCHANGED pOutcome
                   ELSE HandlerEnds("returned")
    /\ UNCHANGED <<pMaxItems, pIncludePosts, pScrollCalls, pExtractCalls,
                   pPosts, pNext, seenIds, collected, postData>>
    /\ UNCHANGED <<batchVars, retryVars, handlerVars, scrollVars,
                   validateVars, extraVars>>

\* post 122-137: extractSinglePostFromPage returned post; it is validated
\* and pushed
ExtractSinglePost(post) ==
    /\ Proceeds
    /\ hAction = "post"
    /\ pPc = "ready"
    /\ postData' = Some(post)
    /\ pExtractCalls' = pExtractCalls + 1
    /\ IF ~ValidatePost(post).valid
       THEN HandlerEnds("returned") /\ UNCHANGED dataset
       ELSE /\ dataset' = Append(dataset,
                                 PostRecord(hAction, post, Undef, Undef))
            /\ pPc' = "scroll"
            /\ UNCHANGED pOutcome
    /\ UNCHANGED <<pMaxItems, pIncludePosts, pScrollCalls, pPosts, pNext,
                   seenIds, collected, profileData>>
    /\ UNCHANGED <<batchVars, retryVars, handlerVars, scrollVars,
                   validateVars, extraVars>>

NextPipeline ==
    \/ WaitFinds
    \/ WaitTimesOut
    \/ AfterWaitThrows
    \/ Classify
    \/ FallsBack
    \/ ScrollReturns
    \/ ScrollThrows
    \/ ExtractPosts
    \/ ExtractThrows
    \/ LoopStep
    \/ \E pd \in PageProfiles : ExtractProfile(pd)
    \/ ExtractReturnsNull
    \/ \E resp \in AboutResponses : FetchAbout(resp)
    \/ \E post \in PagePosts : ExtractSinglePost(post)

SpecPipeline == InitPipeline /\ [][NextPipeline]_vars

\* the handler ended with an error thrown by the fallback of its wait
FailedInFallback == hPc = "done" /\ hOutcome \in Errors

PostRecords == {k \in 1..Len(dataset) : dataset[k].type = "post"}

ProfileRecords == {k \in 1..Len(dataset) : dataset[k].type = "profile"}

\* C17: every post record written to the Dataset by any action (search and
\* hashtag results, the main post, replies, profile posts) has passed
\* validatePost: none has a content shorter than 3 characters, a missing or
\* 'unknown' author username, or an empty timestamp.
C17_EveryEmittedPostPassedValidation ==
    \A k \in PostRecords :
        LET post == dataset[k].post
        IN  /\ post.content.set
            /\ Len(post.content.val) >= 3
            /\ post.username.set
            /\ post.username.val \notin {"", "unknown"}
            /\ post.timestamp.set
            /\ post.timestamp.val # ""

\* C18: every profile record written to the Dataset carries a boolean
\* `partial` and a `missingFields` list set from the validator's result:
\* true with the missing optional fields when some are absent, false with an
\* empty list when none is.
C18_ProfileRecordCarriesPartialAndMissing ==
    \A k \in ProfileRecords :
        LET profile == dataset[k].profile
            validation == ValidateProfile(profile)
        IN  /\ profile.partial.set
            /\ profile.missingFields.set
            /\ profile.partial.val = (Len(validation.missing.val) > 0)
            /\ profile.missingFields.val = validation.missing.val

\* ---------------------------------------------------- a scroll session
InitScroll ==
    /\ BatchIdle
    /\ RetryIdle
    /\ HandlerIdle
    /\ PipeIdle
    /\ ValidateIdle
    /\ ExtraIdle
    /\ sMaxItems \in ScrollTargets
    /\ sPc = "start"
    /\ sI = 0
    /\ scrollCount = 0
    /\ noNewContentCount = 0
    /\ seenPostIds = {}
    /\ sElapsed = 0
    /\ sCycleSets = {}
    /\ sGains = <<>>
    /\ sStop = "none"

\* page-helpers.ts 172-197: the counters are set and the loop starts at i = 0
ScrollBegin ==
    /\ sPc = "start"
    /\ sI' = 0
    /\ scrollCount' = 0
    /\ noNewContentCount' = 0
    /\ seenPostIds' = {}
    /\ sElapsed' = 0
    /\ sPc' = "head"
    /\ UNCHANGED <<sMaxItems, sCycleSets, sGains, sStop>>
    /\ UNCHANGED <<batchVars, retryVars, handlerVars, pipeVars, validateVars,
                   extraVars>>

\* page-helpers.ts 197, 262: the loop condition is false, 'Scroll complete'
LoopNeverEnds == FALSE

LoopEnds ==
    /\ sPc = "head"
    /\ ~LoopContinues(sI, noNewContentCount, sMaxItems)
    /\ sPc' = "complete"
    /\ sStop' = "loopEnd"
    /\ UNCHANGED <<sMaxItems, sI, scrollCount, noNewContentCount, seenPostIds,
                   sElapsed, sCycleSets, sGains>>
    /\ UNCHANGED <<batchVars, retryVars, handlerVars, pipeVars, validateVars,
                   extraVars>>

\* page-helpers.ts 199-202, 262: 'Scroll: timeout reached', break
TimeoutBreak ==
    /\ sPc = "head"
    /\ LoopContinues(sI, noNewContentCount, sMaxItems)
    /\ TimedOut(sElapsed)
    /\ sPc' = "complete"
    /\ sStop' = "timeout"
    /\ UNCHANGED <<sMaxItems, sI, scrollCount, noNewContentCount, seenPostIds,
                   sElapsed, sCycleSets, sGains>>
    /\ UNCHANGED <<batchVars, retryVars, handlerVars, pipeVars, validateVars,
                   extraVars>>

\* page-helpers.ts 204-207: scrollCount++, the cycle starts scrolling
CycleStarts ==
    /\ sPc = "head"
    /\ LoopContinues(sI, noNewContentCount, sMaxItems)
    /\ ~TimedOut(sElapsed)
    /\ scrollCount' = scrollCount + 1
    /\ sPc' = "cycle"
    /\ UNCHANGED <<sMaxItems, sI, noNewContentCount, seenPostIds, sElapsed,
                   sCycleSets, sGains, sStop>>
    /\ UNCHANGED <<batchVars, retryVars, handlerVars, pipeVars, validateVars,
                   extraVars>>

\* page-helpers.ts 207-259 and the i++ of 197: the cycle took d milliseconds
\* and page.$$eval resolved with the ids currentIds
CycleEnds(currentIds, d) ==
    /\ sPc = "cycle"
    /\ sElapsed' = sElapsed + d
    /\ sCycleSets' = sCycleSets \cup {currentIds}
    /\ sGains' = Append(sGains, currentIds \ seenPostIds # {})
    /\ seenPostIds' = AddAll(seenPostIds, currentIds)
    /\ noNewContentCount' =
          NoNewAfter(noNewContentCount, Cardinality(seenPostIds),
                     Cardinality(seenPostIds'))
    /\ IF Enough(Cardinality(seenPostIds'), sMaxItems)
       THEN /\ sPc' = "complete"
            /\ sStop' = "enough"
            /\ UNCHANGED sI
       ELSE /\ sI' = sI + 1
            /\ sPc' = "head"
            /\ UNCHANGED sStop
    /\ UNCHANGED <<sMaxItems, scrollCount>>
    /\ UNCHANGED <<batchVars, retryVars, handlerVars, pipeVars, validateVars,
                   extraVars>>

\* page-helpers.ts 234-242: page.$$eval rejected; no try/catch encloses the
\* call, so scrollForPosts rejects with the error
QueryThrows(d) ==
    /\ sPc = "cycle"
    /\ sElapsed' = sElapsed + d
    /\ sPc' = "threw"
    /\ sStop' = "error"
    /\ UNCHANGED <<sMaxItems, sI, scrollCount, noNewContentCount, seenPostIds,
                   sCycleSets, sGains>>
    /\ UNCHANGED <<batchVars, retryVars, handlerVars, pipeVars, validateVars,
                   extraVars>>

NextScroll ==
    \/ ScrollBegin
    \/ LoopEnds
    \/ TimeoutBreak
    \/ CycleStarts
    \/ \E currentIds \in SUBSET PageIds, d \in CycleDurations :
          CycleEnds(currentIds, d)
    \/ \E d \in CycleDurations : QueryThrows(d)

SpecScroll == InitScroll /\ [][NextScroll]_vars

\* scrollForPosts is running or has returned
InSession == sPc \in {"head", "cycle", "complete"}

\* C12: in a scroll session the cumulative seen-set never loses an element
\* from one cycle to the next, and at every cycle boundary, so also when the
\* session ends, it is the union of the ID sets the executed cycles observed,
\* whatever their order and overlap.
C12_SeenSetIsUnionOfCycleSets ==
    [][/\ seenPostIds \subseteq seenPostIds'
       /\ InSession' => seenPostIds' = UNION sCycleSets']_vars

\* disjoint cycle sets (virtualization) followed by an overlapping one
C12_Witness ==
    /\ sPc = "complete"
    /\ sCycleSets = {{1}, {2}, {1, 2}, {}}
    /\ seenPostIds = {1, 2}

\* C13: the number of executed cycles never exceeds
\* min(20, ceil(target/5) + 5), the consecutive-no-progress counter never
\* exceeds 4, and no cycle starts (none is in progress) once the counter has
\* reached 4 or the attempt cap has been reached.
C13_CyclesAndNoProgressBounded ==
    [][LET byTarget == ((sMaxItems + 4) \div 5) + 5
           cap == IF byTarget < 20 THEN byTarget ELSE 20
       IN  /\ scrollCount' <= cap
           /\ noNewContentCount' <= 4
           /\ sPc' = "cycle" => (noNewContentCount' < 4 /\ sI' < cap)
           /\ scrollCount' > scrollCount
                => (noNewContentCount < 4 /\ scrollCount < cap)]_vars

\* the attempt cap of target 2 (6 cycles) ends the session
C13_Witness ==
    /\ sPc = "complete"
    /\ sStop = "loopEnd"
    /\ sMaxItems = 2
    /\ scrollCount = 6
    /\ noNewContentCount < 4

\* the size the early stop looks at is at least 1.5 times the target
AtLeastOneAndAHalf(size, target) == 2 * size >= 3 * target

\* C14: as soon as a cycle ends with the cumulative seen-set size at least
\* 1.5 * target the session is over and no further cycle is executed; and the
\* session never stops for this reason while the size is below 1.5 * target
\* (reaching exactly `target` items does not stop it).
C14_StopsAtOneAndAHalfTimesTarget ==
    [][/\ (sPc = "cycle" /\ sPc' # "threw")
          => (AtLeastOneAndAHalf(Cardinality(seenPostIds'), sMaxItems)
                <=> (sPc' = "complete" /\ sStop' = "enough"))
       /\ (sPc' = "complete" /\ sStop' = "enough")
          => /\ scrollCount' = scrollCount
             /\ AtLeastOneAndAHalf(Cardinality(seenPostIds'), sMaxItems)
       /\ (sPc' = "cycle" /\ scrollCount' > 1)
          => ~AtLeastOneAndAHalf(Cardinality(seenPostIds'), sMaxItems)]_vars

\* target 1: a cycle that reaches one item does not stop the session, the
\* cycle that reaches two does
C14_Witness ==
    /\ sPc = "complete"
    /\ sStop = "enough"
    /\ sMaxItems = 1
    /\ {1} \in sCycleSets
    /\ seenPostIds = {1, 2}
    /\ scrollCount >= 2

\* C15: no scroll cycle starts once more than 45 seconds have elapsed since
\* the session started: at the first cycle boundary at which the elapsed time
\* exceeds 45000 ms the session ends without another cycle, also when the
\* attempt cap, the no-progress threshold and the overshoot size have not
\* been reached.
C15_NoCycleAfterGlobalTimeout ==
    [][/\ scrollCount' > scrollCount => sElapsed <= 45000
       /\ sPc' = "cycle" => sElapsed' <= 45000
       /\ (sPc = "head" /\ sElapsed > 45000)
          => (sPc' = "complete" /\ scrollCount' = scrollCount)]_vars

\* the timeout ends a session that none of the other conditions would end
C15_Witness ==
    /\ sPc = "complete"
    /\ sStop = "timeout"
    /\ sElapsed > 45000
    /\ noNewContentCount < 4
    /\ sI < 6
    /\ ~AtLeastOneAndAHalf(Cardinality(seenPostIds), sMaxItems)

\* C16: an error raised by the query for the currently rendered item IDs is
\* swallowed: the cycle counts as one without new items, the session goes on
\* with the next cycle, and scrollForPosts never propagates the error to its
\* caller.
C16_QueryErrorIsSwallowed ==
    sPc # "threw" /\ sStop # "error"

\* ---------------------------------------------- a call of a validator
ValidatorInputs ==
    {[kind |-> "post", post |-> post] : post \in Posts}
      \cup {[kind |-> "profile", profile |-> profile] : profile \in Profiles}

InitValidate ==
    /\ BatchIdle
    /\ RetryIdle
    /\ HandlerIdle
    /\ ScrollIdle
    /\ PipeIdle
    /\ ExtraIdle
    /\ vInput \in ValidatorInputs
    /\ vPc = "call"
    /\ vResult = NoValidation

\* page-helpers.ts 269-280: validatePost(post) is called and returns
CallValidatePost ==
    /\ vPc = "call"
    /\ vInput.kind = "post"
    /\ vResult' = ValidatePost(vInput.post)
    /\ vPc' = "done"
    /\ UNCHANGED vInput
    /\ UNCHANGED <<batchVars, retryVars, handlerVars, scrollVars, pipeVars,
                   extraVars>>

\* page-helpers.ts 286-301: validateProfile(profile) is called and returns
CallValidateProfile ==
    /\ vPc = "call"
    /\ vInput.kind = "profile"
    /\ vResult' = ValidateProfile(vInput.profile)
    /\ vPc' = "done"
    /\ UNCHANGED vInput
    /\ UNCHANGED <<batchVars, retryVars, handlerVars, scrollVars, pipeVars,
                   extraVars>>

NextValidate ==
    \/ CallValidatePost
    \/ CallValidateProfile

SpecValidate == InitValidate /\ [][NextValidate]_vars

\* C19: validatePost returns the first failing reason of a fixed order:
\* noContent when content is missing or shorter than 3 characters; otherwise
\* noAuthor when the author username is missing or 'unknown'; otherwise
\* noTimestamp when the timestamp is empty; otherwise valid with no reason.
C19_FirstFailingReason ==
    (vPc = "done" /\ vInput.kind = "post") =>
        LET post == vInput.post
            noContent == ~post.content.set \/ Len(post.content.val) < 3
            noAuthor == \/ ~post.username.set
                        \/ post.username.val \in {"", "unknown"}
            noTimestamp == ~post.timestamp.set \/ post.timestamp.val = ""
        IN  /\ noContent
               => vResult = [valid |-> FALSE, reason |-> Some("noContent")]
            /\ (~noContent /\ noAuthor)
               => vResult = [valid |-> FALSE, reason |-> Some("noAuthor")]
            /\ (~noContent /\ ~noAuthor /\ noTimestamp)
               => vResult = [valid |-> FALSE, reason |-> Some("noTimestamp")]
            /\ (~noContent /\ ~noAuthor /\ ~noTimestamp)
               => vResult = [valid |-> TRUE, reason |-> Undef]

\* a record failing all three checks gets the earliest reason
C19_Witness ==
    /\ vPc = "done"
    /\ vInput.kind = "post"
    /\ vInput.post.content = Some(<<"x", "x">>)
    /\ vInput.post.username = Some("unknown")
    /\ vInput.post.timestamp = Some("")
    /\ vResult.reason = Some("noContent")

\* the optional fields of a profile that are absent: empty or not set for the
\* three texts, not set for the count, null or not set for the two About
\* fields
AbsentFields(profile) ==
    {f \in {"displayName", "avatarUrl", "bio"} :
        ~profile[f].set \/ profile[f].val = ""}
      \cup {f \in {"followersCount"} : profile[f] = Undef}
      \cup {f \in {"location", "joinedDate"} : profile[f] \in {Null, Undef}}

\* C20: validateProfile is invalid only when username is missing; for every
\* profile with a username it is valid, `missing` lists exactly the absent
\* fields among displayName, avatarUrl, followersCount, bio, location and
\* joinedDate, each once (location and joinedDate are absent only when null
\* or undefined, not when empty), and `partial` is true exactly when
\* `missing` is not empty.
C20_MissingIsExactlyTheAbsentFields ==
    (vPc = "done" /\ vInput.kind = "profile") =>
        LET profile == vInput.profile
            hasUsername == profile.username.set /\ profile.username.val # ""
        IN  /\ vResult.valid <=> hasUsername
            /\ ~hasUsername => vResult.reason = Some("noUsername")
            /\ hasUsername =>
                 LET missing == vResult.missing.val
                 IN  /\ {missing[k] : k \in 1..Len(missing)}
                           = AbsentFields(profile)
                     /\ Len(missing) = Cardinality(AbsentFields(profile))
                     /\ vResult.partial.val <=> (missing # <<>>)
                     /\ vResult.reason = Undef

\* every optional field present, the two About fields as empty strings
C20_Witness ==
    /\ vPc = "done"
    /\ vInput.kind = "profile"
    /\ vInput.profile.location = Some("")
    /\ vInput.profile.joinedDate = Some("")
    /\ vInput.profile.followersCount = Some(0)
    /\ vResult.valid
    /\ vResult.partial = Some(FALSE)
    /\ vResult.missing = Some(<<>>)

\* ------------------------------------------ video capture of action calls
\* Each call of searchAction / hashtagAction / profileAction / postAction
\* builds its own crawler, and the crawler opens its own page. The calls of
\* one batch run concurrently (runBatch), so their hooks, handlers and the
\* responses of their pages interleave.
MaxCalls == 2     \* action calls running at the same time

Calls == 1..MaxCalls

\* the page the crawler of a call hands to its hooks and its handler
PageOf(call) == call

MediaUrls == {"https://cdn/a.mp4", "https://cdn/b"}

ContentTypes == {"video/mp4", "text/html"}

\* ct.startsWith('video/') || url.match(/\.(mp4|m3u8)(\?|$)/i)
IsVideoResponse(ct, url) == ct = "video/mp4" \/ url = "https://cdn/a.mp4"

\* the set a listener adds to: `videoRequests` is a const of the call that
\* registered the listener
CaptureSetShared(call) == 1
CaptureSet(call) == call

\* the listeners of a page, as the sets they add to
ListenersOn(page, kind) ==
    {CaptureSet(l.owner) : l \in {x \in mListeners : x.page = page /\ x.kind = kind}}

InitMedia ==
    /\ BatchIdle
    /\ RetryIdle
    /\ HandlerIdle
    /\ ScrollIdle
    /\ PipeIdle
    /\ ValidateIdle
    /\ ParseIdle
    /\ CycleIdle
    /\ ExtractIdle
    /\ mPc = [c \in Calls |-> "created"]
    /\ videoRequests = [c \in Calls |-> {}]
    /\ scrollVideoRequests = [c \in Calls |-> {}]
    /\ mListeners = {}
    /\ mWindow = [p \in {PageOf(c) : c \in Calls} |-> Undef]
    /\ mResponses = [p \in {PageOf(c) : c \in Calls} |-> {}]

\* preNavigationHooks: page.on('response', ...) on the call's page
PreNavigationHook(c) ==
    /\ mPc[c] = "created"
    /\ mListeners' = mListeners \cup
                     {[page |-> PageOf(c), owner |-> c, kind |-> "action"]}
    /\ mPc' = [mPc EXCEPT ![c] = "navigating"]
    /\ UNCHANGED <<videoRequests, scrollVideoRequests, mWindow, mResponses>>
    /\ UNCHANGED <<batchVars, retryVars, handlerVars, scrollVars, pipeVars,
                   validateVars, parseVars, cycleVars, extractVars>>

\* a page receives a response: every listener registered on it runs
Response(page, ct, url) ==
    /\ \E c \in Calls : PageOf(c) = page /\ mPc[c] \notin {"created", "done"}
    /\ LET video == IsVideoResponse(ct, url)
           toAction == IF video THEN ListenersOn(page, "action") ELSE {}
           toScroll == IF video THEN ListenersOn(page, "scroll") ELSE {}
       IN  /\ videoRequests' =
                [c \in Calls |-> IF c \in toAction
                                 THEN videoRequests[c] \cup {url}
                                 ELSE videoRequests[c]]
           /\ scrollVideoRequests' =
                [c \in Calls |-> IF c \in toScroll
                                 THEN scrollVideoRequests[c] \cup {url}
                                 ELSE scrollVideoRequests[c]]
           /\ mResponses' = IF video
                            THEN [mResponses EXCEPT ![page] = @ \cup {url}]
                            ELSE mResponses
    /\ UNCHANGED <<mPc, mListeners, mWindow>>
    /\ UNCHANGED <<batchVars, retryVars, handlerVars, scrollVars, pipeVars,
                   validateVars, parseVars, cycleVars, extractVars>>

\* the handler, after its wait: window.__threadsVideoRequests = captured
HandlerInjects(c) ==
    /\ mPc[c] = "navigating"
    /\ mWindow' = IF videoRequests[c] # {}
                  THEN [mWindow EXCEPT ![PageOf(c)] = Some(videoRequests[c])]
                  ELSE mWindow
    /\ mPc' = [mPc EXCEPT ![c] = "handler"]
    /\ UNCHANGED <<videoRequests, scrollVideoRequests, mListeners, mResponses>>
    /\ UNCHANGED <<batchVars, retryVars, handlerVars, scrollVars, pipeVars,
                   validateVars, parseVars, cycleVars, extractVars>>

\* scrollForPosts begins: a fresh videoRequests and one more listener
ScrollRegisters(c) ==
    /\ mPc[c] = "handler"
    /\ scrollVideoRequests' = [scrollVideoRequests EXCEPT ![c] = {}]
    /\ mListeners' = mListeners \cup
                     {[page |-> PageOf(c), owner |-> c, kind |-> "scroll"]}
    /\ mPc' = [mPc EXCEPT ![c] = "scrolling"]
    /\ UNCHANGED <<videoRequests, mWindow, mResponses>>
    /\ UNCHANGED <<batchVars, retryVars, handlerVars, scrollVars, pipeVars,
                   validateVars, parseVars, cycleVars, extractVars>>

\* a cycle of scrollForPosts: window.__threadsVideoRequests = captured
ScrollInjects(c) ==
    /\ mPc[c] = "scrolling"
    /\ scrollVideoRequests[c] # {}
    /\ mWindow' = [mWindow EXCEPT
                      ![PageOf(c)] = Some(scrollVideoRequests[c])]
    /\ UNCHANGED <<mPc, videoRequests, scrollVideoRequests, mListeners,
                   mResponses>>
    /\ UNCHANGED <<batchVars, retryVars, handlerVars, scrollVars, pipeVars,
                   validateVars, parseVars, cycleVars, extractVars>>

\* the handler returns and the crawler of the call ends
CallEnds(c) ==
    /\ mPc[c] = "scrolling"
    /\ mPc' = [mPc EXCEPT ![c] = "done"]
    /\ UNCHANGED <<videoRequests, scrollVideoRequests, mListeners, mWindow,
                   mResponses>>
    /\ UNCHANGED <<batchVars, retryVars, handlerVars, scrollVars, pipeVars,
                   validateVars, parseVars, cycleVars, extractVars>>

NextMedia ==
    \/ \E c \in Calls : PreNavigationHook(c)
    \/ \E c \in Calls, ct \in ContentTypes, url \in MediaUrls :
          Response(PageOf(c), ct, url)
    \/ \E c \in Calls : HandlerInjects(c)
    \/ \E c \in Calls : ScrollRegisters(c)
    \/ \E c \in Calls : ScrollInjects(c)
    \/ \E c \in Calls : CallEnds(c)

SpecMedia == InitMedia /\ [][NextMedia]_vars

\* C21: whatever the interleaving of the calls' hooks, handlers and
\* responses, each captured video URL set of a call (the call's own set, the
\* set of its scrollForPosts, and what was injected into its page) holds
\* only URLs that its own page responded with.
C21_CapturedUrlsComeFromOwnPage ==
    \A c \in Calls :
        /\ videoRequests[c] \subseteq mResponses[PageOf(c)]
        /\ scrollVideoRequests[c] \subseteq mResponses[PageOf(c)]
        /\ mWindow[PageOf(c)].set =>
               mWindow[PageOf(c)].val \subseteq mResponses[PageOf(c)]

\* two calls are under way, one page has answered with a video the other
\* page has not, and the call of the first page captured it
C21_Witness ==
    \E c, d \in Calls :
        /\ c # d
        /\ mPc[c] = "scrolling" /\ mPc[d] = "scrolling"
        /\ \E u \in videoRequests[c] :
              u \in scrollVideoRequests[c] /\ u \notin mResponses[PageOf(d)]
        /\ mWindow[PageOf(c)].set

\* --------------------------------- the search / hashtag loop on any list
\* The loop of search.ts 176-195 and hashtag.ts 181-200, run on whatever
\* list `await extractPostsFromPage(page, maxItems)` resolves with: longer
\* than maxItems and with repeated ids included.
AnyLists == SeqsUpTo(PagePosts, MaxPosts + 1)

InitSearchLoop ==
    /\ BatchIdle
    /\ RetryIdle
    /\ ScrollIdle
    /\ ValidateIdle
    /\ ExtraIdle
    /\ hAction \in {"search", "hashtag"}
    /\ hPage = [NoPage EXCEPT !.postLinkCount = 1, !.h1 = TRUE]
    /\ hPc = "done"
    /\ hInfo = NoInfo
    /\ hClassified = 0
    /\ hOutcome = "proceed"
    /\ pMaxItems \in HandlerTargets
    /\ pIncludePosts = TRUE
    /\ pPc = "extract"
    /\ pScrollCalls = 1
    /\ pExtractCalls = 0
    /\ pPosts = <<>>
    /\ pNext = 1
    /\ seenIds = {}
    /\ collected = 0
    /\ profileData = Undef
    /\ postData = Undef
    /\ dataset = <<>>
    /\ pOutcome = "none"

\* search.ts 173 (hashtag.ts 178): the extractor resolved with some list
ExtractAnything ==
    /\ Proceeds
    /\ pPc = "extract"
    /\ pPosts' \in AnyLists
    /\ pNext' = 1
    /\ pExtractCalls' = pExtractCalls + 1
    /\ pPc' = "loop"
    /\ UNCHANGED <<pMaxItems, pIncludePosts, pScrollCalls, seenIds,
                   collected, profileData, postData, dataset, pOutcome>>
    /\ UNCHANGED <<batchVars, retryVars, handlerVars, scrollVars,
                   validateVars, extraVars>>

NextSearchLoop ==
    \/ ExtractAnything
    \/ LoopStep

SpecSearchLoop == InitSearchLoop /\ [][NextSearchLoop]_vars

\* C22: a search or hashtag task writes at most maxItems post records to
\* the Dataset and never two records with the same post id, whatever list
\* the extractor returned.
C22_AtMostMaxItemsDistinctPosts ==
    /\ Cardinality(PostRecords) <= pMaxItems
    /\ \A j, k \in PostRecords :
          dataset[j].post.id = dataset[k].post.id => j = k

\* the handler returned after a list longer than maxItems that repeats a
\* valid post and holds a second valid one; maxItems records were written
C22_Witness ==
    /\ pPc = "done"
    /\ Len(pPosts) > pMaxItems
    /\ \E i, j, k \in 1..Len(pPosts) :
          /\ i < j
          /\ pPosts[i] = pPosts[j]
          /\ ValidatePost(pPosts[i]).valid
          /\ ValidatePost(pPosts[k]).valid
          /\ pPosts[k].id # pPosts[i].id
    /\ Cardinality(PostRecords) = pMaxItems

\* ------------------------------------------------ the parsers (selectors.ts)
\* A text is a sequence of characters; a character outside ASCII is written
\* as its code point: "U+79D2" is the character for `second`.
MaxText == 4      \* length of the texts explored

\* the characters explored for parseRelativeTime
TimeChars == {"n", "o", "w", "N", "s", "5", " ", "U+79D2", "x"}

DigitChars == <<"0", "1", "2", "3", "4", "5", "6", "7", "8", "9">>

\* \d
IsDigit(c) == \E d \in 1..10 : DigitChars[d] = c

DigitValue(c) == (CHOOSE d \in 1..10 : DigitChars[d] = c) - 1

\* \s, for the characters explored
IsSpace(c) == c = " "

\* parseInt(digits, 10) of a run of digits
RECURSIVE ParseInt(_)
ParseInt(ds) ==
    IF ds = <<>> THEN 0
    ELSE ParseInt(SubSeq(ds, 1, Len(ds) - 1)) * 10 + DigitValue(ds[Len(ds)])

MinOf(S) == CHOOSE m \in S : \A x \in S : m <= x

\* the characters \d and \s match
DigitSet == {DigitChars[d] : d \in 1..10}

SpaceSet == {" "}

\* index of the last character of the longest run of characters of the
\* class that begins at i (i - 1 when the run is empty): a greedy [class]*
RunEnd(t, i, class) ==
    LET stops == {j \in i..Len(t) : t[j] \notin class}
    IN  IF stops = {} THEN Len(t) ELSE MinOf(stops) - 1

\* String.prototype.toLowerCase, for the characters explored
LowerChar(c) ==
    IF c = "N" THEN "n"
    ELSE IF c = "K" THEN "k"
    ELSE IF c = "M" THEN "m"
    ELSE c

LowerText(t) == [i \in 1..Len(t) |-> LowerChar(t[i])]

\* String.prototype.trim
TrimText(t) ==
    LET inked == {i \in 1..Len(t) : ~IsSpace(t[i])}
    IN  IF inked = {} THEN <<>>
        ELSE SubSeq(t, MinOf(inked), CHOOSE m \in inked : \A x \in inked : x <= m)

\* String.prototype.includes
IncludesText(t, p) ==
    \E i \in 1..(Len(t) - Len(p) + 1) : SubSeq(t, i, i + Len(p) - 1) = p

JustNow == <<"j", "u", "s", "t", " ", "n", "o", "w">>

NowWord == <<"n", "o", "w">>

\* the two characters of the zh-Hant `just now`
GangGang == <<"U+525B", "U+525B">>

\* the unit letters of the English pattern and the seconds in each
LatinUnits == {"s", "m", "h", "d", "w"}

LatinUnitSeconds(u) ==
    IF u = "s" THEN 1
    ELSE IF u = "m" THEN 60
    ELSE IF u = "h" THEN 3600
    ELSE IF u = "d" THEN 86400
    ELSE 604800

\* the alternatives of the CJK pattern in the order of the regular
\* expression, and the seconds in each (a month is 30 days)
ZhUnits ==
    <<[chars |-> <<"U+79D2", "U+9418">>, seconds |-> 1],
      [chars |-> <<"U+79D2">>, seconds |-> 1],
      [chars |-> <<"U+5206", "U+9418">>, seconds |-> 60],
      [chars |-> <<"U+5206">>, seconds |-> 60],
      [chars |-> <<"U+5C0F", "U+6642">>, seconds |-> 3600],
      [chars |-> <<"U+5C0F", "U+65F6">>, seconds |-> 3600],
      [chars |-> <<"U+6642">>, seconds |-> 3600],
      [chars |-> <<"U+5929">>, seconds |-> 86400],
      [chars |-> <<"U+65E5">>, seconds |-> 86400],
      [chars |-> <<"U+9031">>, seconds |-> 604800],
      [chars |-> <<"U+5468">>, seconds |-> 604800],
      [chars |-> <<"U+661F", "U+671F">>, seconds |-> 604800],
      [chars |-> <<"U+793C", "U+62DC">>, seconds |-> 604800],
      [chars |-> <<"U+6708">>, seconds |-> 2592000]>>

\* the value returned: '' or the ISO string of an instant, kept as the
\* number of seconds it lies before `now`
EmptyString == [kind |-> "empty"]

IsoOfNowMinus(seconds) == [kind |-> "iso", ago |-> seconds]

NoMatch == [found |-> FALSE]

\* t.match(/(\d+)\s*(s|m|h|d|w)/i): the leftmost match, \d+ and \s* greedy
EnMatch(t) ==
    LET UnitAt(i) == RunEnd(t, RunEnd(t, i, DigitSet) + 1, SpaceSet) + 1
        starts == {i \in 1..Len(t) :
                      /\ IsDigit(t[i])
                      /\ UnitAt(i) <= Len(t)
                      /\ LowerChar(t[UnitAt(i)]) \in LatinUnits}
    IN  IF starts = {} THEN NoMatch
        ELSE LET i == MinOf(starts)
             IN  [found |-> TRUE,
                  value |-> ParseInt(SubSeq(t, i, RunEnd(t, i, DigitSet))),
                  seconds |-> LatinUnitSeconds(LowerChar(t[UnitAt(i)]))]

\* text.match(/(\d+)\s*(<unit>|...)\s*<ago>?/): the leftmost match, and at
\* it the first alternative that fits
ZhMatch(t) ==
    LET UnitAt(i) == RunEnd(t, RunEnd(t, i, DigitSet) + 1, SpaceSet) + 1
        Fits(i) == {k \in 1..Len(ZhUnits) :
                       /\ UnitAt(i) + Len(ZhUnits[k].chars) - 1 <= Len(t)
                       /\ SubSeq(t, UnitAt(i),
                                 UnitAt(i) + Len(ZhUnits[k].chars) - 1)
                            = ZhUnits[k].chars}
        starts == {i \in 1..Len(t) : IsDigit(t[i]) /\ Fits(i) # {}}
    IN  IF starts = {} THEN NoMatch
        ELSE LET i == MinOf(starts)
             IN  [found |-> TRUE,
                  value |-> ParseInt(SubSeq(t, i, RunEnd(t, i, DigitSet))),
                  seconds |-> ZhUnits[MinOf(Fits(i))].seconds]

\* selectors.ts 553-618
ParseRelativeTime(text) ==
    LET lowerText == TrimText(LowerText(text))
        enMatch == EnMatch(lowerText)
        zhMatch == ZhMatch(text)
    IN  IF lowerText = <<>> THEN EmptyString
        ELSE IF \/ IncludesText(lowerText, JustNow)
                \/ IncludesText(lowerText, NowWord)
                \/ IncludesText(lowerText, GangGang)
        THEN IsoOfNowMinus(0)
        ELSE IF enMatch.found
        THEN IsoOfNowMinus(enMatch.value * enMatch.seconds)
        ELSE IF zhMatch.found
        THEN IsoOfNowMinus(zhMatch.value * zhMatch.seconds)
        ELSE EmptyString

\* the characters explored for parseStatNumber
StatChars == {"1", "5", ",", ".", "K", "m", "x"}

\* [\d,]
IsDigitOrComma(c) == IsDigit(c) \/ c = ","

\* Math.round of the non-negative fraction n / d
RoundDiv(n, d) == (2 * n + d) \div (2 * d)

\* the value returned: a number, kept as an integer, or NaN
Number(n) == [kind |-> "number", val |-> n]

NaN == [kind |-> "NaN"]

\* Math.round(parseFloat(<int digits>[.<fraction digits>]) * multiplier);
\* parseFloat of a string without a digit is NaN
RoundedProduct(intDigits, fracDigits, multiplier) ==
    IF intDigits = <<>> /\ fracDigits = <<>> THEN NaN
    ELSE Number(ParseInt(intDigits) * multiplier
                + RoundDiv(ParseInt(fracDigits) * multiplier,
                           Pow(10, Len(fracDigits))))

\* parseInt(cleaned, 10) || 0
ParseIntOrZero(intDigits) == Number(ParseInt(intDigits))

\* selectors.ts 649-667: the leftmost match of /[\d,]+\.?\d*[KkMm]?/, every
\* quantifier greedy
ParseStatNumber(text) ==
    LET starts == {i \in 1..Len(text) : IsDigitOrComma(text[i])}
    IN  IF starts = {} THEN Number(0)
        ELSE
        LET i == MinOf(starts)
            e1 == RunEnd(text, i, DigitSet \cup {","})
            hasDot == e1 + 1 <= Len(text) /\ text[e1 + 1] = "."
            f0 == IF hasDot THEN e1 + 2 ELSE e1 + 1
            e2 == RunEnd(text, f0, DigitSet)
            suffix == IF e2 + 1 <= Len(text)
                         /\ text[e2 + 1] \in {"K", "k", "M", "m"}
                      THEN LowerChar(text[e2 + 1]) ELSE ""
            \* cleaned: the commas removed
            intDigits == SelectSeq(SubSeq(text, i, e1), IsDigit)
            fracDigits == SubSeq(text, f0, e2)
        IN  IF suffix = "k" THEN RoundedProduct(intDigits, fracDigits, 1000)
            ELSE IF suffix = "m"
            THEN RoundedProduct(intDigits, fracDigits, 1000000)
            ELSE ParseIntOrZero(intDigits)

\* ------------------------------------------------------ calls of a parser
InitParse ==
    /\ BatchIdle
    /\ RetryIdle
    /\ HandlerIdle
    /\ ScrollIdle
    /\ PipeIdle
    /\ ValidateIdle
    /\ MediaIdle
    /\ CycleIdle
    /\ ExtractIdle
    /\ \/ fName = "parseRelativeTime" /\ fText \in SeqsUpTo(TimeChars, MaxText)
       \/ fName = "parseStatNumber" /\ fText \in SeqsUpTo(StatChars, MaxText)
    /\ fPc = "call"
    /\ fResult = Undef

CallParseRelativeTime ==
    /\ fPc = "call"
    /\ fName = "parseRelativeTime"
    /\ fResult' = ParseRelativeTime(fText)
    /\ fPc' = "done"
    /\ UNCHANGED <<fName, fText>>
    /\ UNCHANGED <<batchVars, retryVars, handlerVars, scrollVars, pipeVars,
                   validateVars, mediaVars, cycleVars, extractVars>>

CallParseStatNumber ==
    /\ fPc = "call"
    /\ fName = "parseStatNumber"
    /\ fResult' = ParseStatNumber(fText)
    /\ fPc' = "done"
    /\ UNCHANGED <<fName, fText>>
    /\ UNCHANGED <<batchVars, retryVars, handlerVars, scrollVars, pipeVars,
                   validateVars, mediaVars, cycleVars, extractVars>>

NextParse ==
    \/ CallParseRelativeTime
    \/ CallParseStatNumber

SpecParse == InitParse /\ [][NextParse]_vars

\* the part of a text between two positions is a word of it
IsWordOf(t, i, j) ==
    /\ i = 1 \/ IsSpace(t[i - 1])
    /\ j = Len(t) \/ IsSpace(t[j + 1])

\* <digits><s|m|h|d|w>, with blanks allowed before the unit letter
IsLatinValue(w) ==
    /\ Len(w) >= 2
    /\ IsDigit(w[1])
    /\ w[Len(w)] \in LatinUnits
    /\ RunEnd(w, RunEnd(w, 1, DigitSet) + 1, SpaceSet) = Len(w) - 1

\* the text holds a `just now` phrase, a <digits><s|m|h|d|w> value or a
\* native-script <digits><unit> value
RecognizedRelativeTime(text) ==
    LET t == TrimText(LowerText(text))
    IN  \/ \E i \in 1..Len(t), j \in 1..Len(t) :
              /\ i <= j
              /\ IsWordOf(t, i, j)
              /\ \/ SubSeq(t, i, j) \in {JustNow, NowWord}
                 \/ IsLatinValue(SubSeq(t, i, j))
        \/ IncludesText(t, GangGang)
        \/ ZhMatch(text).found

\* C23: parseRelativeTime returns the empty string for every input that is
\* not a 'just now' phrase, not a compact Latin <digits><s|m|h|d|w> value
\* and not a native-script <digits><unit> value: unrecognized text never
\* yields a timestamp, in particular never the current instant.
C23_UnrecognizedTextYieldsEmptyString ==
    (fPc = "done" /\ fName = "parseRelativeTime"
     /\ ~RecognizedRelativeTime(fText))
        => fResult = EmptyString

AllDigits(t) == t # <<>> /\ \A i \in 1..Len(t) : IsDigit(t[i])

\* C24: parseStatNumber returns a non-negative integer for every text: 0
\* when the text holds no number pattern, the digits' value for a plain
\* number, and the value times 1,000 (K) or 1,000,000 (M) for a suffixed one.
C24_StatNumberIsNonNegativeInteger ==
    (fPc = "done" /\ fName = "parseStatNumber") =>
        /\ fResult.kind = "number"
        /\ fResult.val \in Nat
        /\ (\A i \in 1..Len(fText) : ~IsDigit(fText[i])) => fResult.val = 0
        /\ AllDigits(fText) => fResult.val = ParseInt(fText)
        /\ \A ds \in {SubSeq(fText, 1, Len(fText) - 1)} :
              /\ (AllDigits(ds) /\ fText[Len(fText)] = "K")
                    => fResult.val = ParseInt(ds) * 1000
              /\ (AllDigits(ds) /\ fText[Len(fText)] = "M")
                    => fResult.val = ParseInt(ds) * 1000000

\* ------------------------------------------- the classifier of the handlers
\* C25: detectPageError is invoked only after the primary wait for content
\* timed out: on a run in which the awaited content appeared, the classifier
\* is never invoked.
C25_ClassifierRunsOnlyAfterTimeout ==
    [][hClassified' # hClassified => hPc = "timedOut"]_vars

\* the generic error phrases that occur in the document, by list position
MatchingErrorPhrases ==
    {k \in 1..Len(ErrorPatterns) :
        Includes(ToLowerCase(hPage.body), ToLowerCase(ErrorPatterns[k]))}

\* C26: the classifier's errorMessage is the rate-limit message whenever
\* isRateLimited is true (even if a generic error phrase matches as well);
\* otherwise the first phrase of the generic error list, in list order, that
\* occurs in the document; otherwise 'Unknown error'.
C26_ErrorMessagePrecedence ==
    hClassified > 0 =>
        IF hInfo.isRateLimited
        THEN hInfo.errorMessage = "Rate limited by Threads"
        ELSE IF MatchingErrorPhrases # {}
        THEN /\ hInfo.isErrorPage
             /\ \E k \in MatchingErrorPhrases :
                   /\ \A j \in MatchingErrorPhrases : k <= j
                   /\ hInfo.errorMessage = ErrorPatterns[k][1]
        ELSE hInfo.errorMessage = "Unknown error"

\* a document that is rate limited and also holds a generic error phrase
\* was classified
C26_Witness ==
    /\ hClassified > 0
    /\ hInfo.isRateLimited
    /\ MatchingErrorPhrases # {}
    /\ hInfo.errorMessage = "Rate limited by Threads"

\* C27: isEmpty is true exactly when postLinkCount is 0 and either
\* hasMainContent is false or the trimmed body text is shorter than 50
\* characters; it is never true when a post link exists, and hasMainContent
\* does not depend on it.
C27_IsEmptyExactly ==
    hClassified > 0 =>
        /\ hInfo.isEmpty <=>
              /\ hPage.postLinkCount = 0
              /\ ~hPage.mainChildren \/ TrimmedLength(hPage.body) < 50
        /\ hPage.postLinkCount > 0 => ~hInfo.isEmpty
        /\ hInfo.hasMainContent = hPage.mainChildren
        /\ hInfo.postLinkCount = hPage.postLinkCount

\* a document without post links, with main content and a short text was
\* classified as empty
C27_Witness ==
    /\ hClassified > 0
    /\ hPage.postLinkCount = 0
    /\ hPage.mainChildren
    /\ TrimmedLength(hPage.body) < 50
    /\ hPage.body # <<>>
    /\ hInfo.isEmpty

\* ------------------------------------------- withRateLimitRetry, whole runs
\* the maxRetries in force: the configured one, 3 by default
ConfiguredMaxRetries ==
    IF rConfig.maxRetries.set THEN rConfig.maxRetries.val ELSE 3

AllRateLimited ==
    rFnLog # <<>> /\ \A i \in 1..Len(rFnLog) : rFnLog[i] = "RateLimitError"

\* C28: when every invocation of fn fails with a rate-limit error,
\* withRateLimitRetry invokes fn exactly maxRetries + 1 times, sleeps exactly
\* maxRetries times (never after the final failure) and throws the error of
\* the last invocation; with maxRetries = 0 that is one invocation and no
\* sleep.
C28_ExhaustedRetries ==
    /\ (rPc = "thrown" /\ AllRateLimited) =>
          /\ rCalls = ConfiguredMaxRetries + 1
          /\ Len(rFnLog) = ConfiguredMaxRetries + 1
          /\ Len(rSleeps) = ConfiguredMaxRetries
          /\ rResult = [type |-> "error",
                        error |-> [kind |-> "RateLimitError",
                                   call |-> ConfiguredMaxRetries + 1]]
          /\ ConfiguredMaxRetries = 0 => (rCalls = 1 /\ rSleeps = <<>>)
    /\ (rPc \in {"calling", "sleeping"} /\ (rFnLog = <<>> \/ AllRateLimited)) =>
          /\ rCalls <= ConfiguredMaxRetries + 1
          /\ Len(rSleeps) <= ConfiguredMaxRetries

\* maxRetries = 2 was configured, three invocations failed with a rate-limit
\* error and the third error was thrown
C28_Witness ==
    /\ rPc = "thrown"
    /\ rConfig.maxRetries = Some(2)
    /\ rFnLog = <<"RateLimitError", "RateLimitError", "RateLimitError">>
    /\ Len(rSleeps) = 2
    /\ rResult.error.call = 3

\* C29: when fn succeeds on attempt k (0 <= k <= maxRetries) after k
\* rate-limit failures, withRateLimitRetry returns fn's value unchanged,
\* exactly k sleeps have happened and fn is not invoked again.
C29_SuccessAfterRetries ==
    rPc = "returned" =>
        LET k == Len(rFnLog) - 1
        IN  /\ k >= 0 /\ k <= ConfiguredMaxRetries
            /\ \A i \in 1..k : rFnLog[i] = "RateLimitError"
            /\ rFnLog[k + 1] \in FnValues
            /\ rResult = [type |-> "value", value |-> rFnLog[k + 1]]
            /\ Len(rSleeps) = k
            /\ rCalls = k + 1
            /\ attempt = k
            /\ ~(ENABLED NextRetry)

\* fn returned a value on its third invocation, after two rate-limit failures
C29_Witness ==
    /\ rPc = "returned"
    /\ rFnLog = <<"RateLimitError", "RateLimitError", "v2">>
    /\ rResult = [type |-> "value", value |-> "v2"]
    /\ Len(rSleeps) = 2

\* ------------------------------------------- the no-progress counter
\* the number of most recent consecutive cycles that showed no unseen ID
RECURSIVE TrailingNoGain(_)
TrailingNoGain(gains) ==
    IF gains = <<>> \/ gains[Len(gains)] THEN 0
    ELSE 1 + TrailingNoGain(SubSeq(gains, 1, Len(gains) - 1))

\* C30: after each scroll cycle the no-progress counter is its previous
\* value plus one when the cycle left the size of the seen set unchanged and
\* zero when the cycle added an ID, so it always equals the number of most
\* recent consecutive cycles that added nothing.
C30_NoProgressCounterCountsTrailingCycles ==
    /\ [][Len(sGains') = Len(sGains) + 1 =>
             noNewContentCount' =
                IF Cardinality(seenPostIds') = Cardinality(seenPostIds)
                THEN noNewContentCount + 1 ELSE 0]_vars
    /\ [](InSession => noNewContentCount = TrailingNoGain(sGains))

\* two cycles without a new ID followed a cycle that added one
C30_Witness ==
    /\ InSession
    /\ Len(sGains) >= 4
    /\ sGains[Len(sGains) - 2]
    /\ ~sGains[Len(sGains) - 1]
    /\ ~sGains[Len(sGains)]
    /\ noNewContentCount = 2

\* ------------------------------------------- scrollForPosts, whole sessions
\* Every await of scrollForPosts is a bounded wait (waitForTimeout, a spinner
\* wait with a timeout, page calls that settle), so a session that can take a
\* step eventually takes one.
SpecScrollFair == SpecScroll /\ WF_vars(NextScroll)

\* C31: scrollForPosts always terminates: provided no query of a cycle
\* fails, every session reaches its 'Scroll complete' end, and it never
\* executes more than 20 cycles, whatever the target and the ID sets the
\* cycles show.
C31_ScrollSessionTerminates ==
    /\ [](sPc # "threw") => <>(sPc = "complete")
    /\ [](scrollCount <= 20)

\* a session with the attempt cap of 20 (target 100) completed after twelve
\* cycles: twice three cycles without a new ID, each followed by a cycle
\* that added one, then four cycles without a new ID
C31_Witness ==
    /\ sPc = "complete"
    /\ sMaxItems = 100
    /\ scrollCount = 12
    /\ Cardinality(seenPostIds) = 2

\* ------------------------------- one cycle of scrollForPosts, await by await
\* page-helpers.ts 204-253. A page operation is logged as its name and its
\* argument: the scrolled share of the viewport in tenths, or a time in ms.
ScrollTenths == 8            \* window.scrollBy(0, h * 0.8)
SpinnerTimeout == 10000      \* spinner.waitFor({ state: 'hidden', timeout })

Op(name, arg) == [op |-> name, arg |-> arg]

\* where the cycle goes on after spinner.waitFor(...).catch(() => {}) has
\* settled: the catch swallows the timeout
AfterSpinnerWaitAbortsOnTimeout(how) ==
    IF how = "timeout" THEN "threw" ELSE "settle"

AfterSpinnerWait(how) == "settle"

InitCycle ==
    /\ BatchIdle
    /\ RetryIdle
    /\ HandlerIdle
    /\ ScrollIdle
    /\ PipeIdle
    /\ ValidateIdle
    /\ ParseIdle
    /\ MediaIdle
    /\ ExtractIdle
    /\ cPc = "start"
    /\ cStep = 0
    /\ cLog = <<>>
    /\ cSeen \in SUBSET PageIds
    /\ cVideo \in BOOLEAN

\* page-helpers.ts 204-208: scrollCount++, the viewport height is read and
\* the step loop starts
CycleBegins ==
    /\ cPc = "start"
    /\ cStep' = 0
    /\ cPc' = "steps"
    /\ UNCHANGED <<cLog, cSeen, cVideo>>
    /\ UNCHANGED <<batchVars, retryVars, handlerVars, scrollVars, pipeVars,
                   validateVars, parseVars, mediaVars, extractVars>>

\* page-helpers.ts 208-211: one sub-scroll and its wait, step++
SubScroll ==
    /\ cPc = "steps"
    /\ cStep < ScrollSteps
    /\ cLog' = cLog \o <<Op("scrollBy", ScrollTenths),
                         Op("waitForTimeout", StepDelay)>>
    /\ cStep' = cStep + 1
    /\ UNCHANGED <<cPc, cSeen, cVideo>>
    /\ UNCHANGED <<batchVars, retryVars, handlerVars, scrollVars, pipeVars,
                   validateVars, parseVars, mediaVars, extractVars>>

\* page-helpers.ts 214-215: the step loop is over; spinner.isVisible()
\* resolved with true or false, or rejected (.catch(() => false))
SpinnerChecked(answer) ==
    /\ cPc = "steps"
    /\ cStep >= ScrollSteps
    /\ cLog' = Append(cLog, Op("isVisible", 0))
    /\ cPc' = IF answer = "visible" THEN "spinner" ELSE "settle"
    /\ UNCHANGED <<cStep, cSeen, cVideo>>
    /\ UNCHANGED <<batchVars, retryVars, handlerVars, scrollVars, pipeVars,
                   validateVars, parseVars, mediaVars, extractVars>>

\* page-helpers.ts 216: spinner.waitFor settled: the spinner went away, or
\* the wait timed out
SpinnerWaitSettles(how) ==
    /\ cPc = "spinner"
    /\ cLog' = Append(cLog, Op("spinnerWaitFor", SpinnerTimeout))
    /\ cPc' = AfterSpinnerWait(how)
    /\ UNCHANGED <<cStep, cSeen, cVideo>>
    /\ UNCHANGED <<batchVars, retryVars, handlerVars, scrollVars, pipeVars,
                   validateVars, parseVars, mediaVars, extractVars>>

\* page-helpers.ts 219-231: the settle delay, then the captured video URLs
\* are injected if there are any
SettleDelay ==
    /\ cPc = "settle"
    /\ cLog' = cLog \o <<Op("waitForTimeout", SCROLL_DELAY)>>
                    \o (IF cVideo THEN <<Op("inject", 0)>> ELSE <<>>)
    /\ cPc' = "query"
    /\ UNCHANGED <<cStep, cSeen, cVideo>>
    /\ UNCHANGED <<batchVars, retryVars, handlerVars, scrollVars, pipeVars,
                   validateVars, parseVars, mediaVars, extractVars>>

\* page-helpers.ts 234-245: page.$$eval resolved with currentIds, which are
\* added to seenPostIds
QueryAndMerge(currentIds) ==
    /\ cPc = "query"
    /\ cLog' = cLog \o <<Op("query", 0), Op("merge", 0)>>
    /\ cSeen' = AddAll(cSeen, currentIds)
    /\ cPc' = "done"
    /\ UNCHANGED <<cStep, cVideo>>
    /\ UNCHANGED <<batchVars, retryVars, handlerVars, scrollVars, pipeVars,
                   validateVars, parseVars, mediaVars, extractVars>>

\* page-helpers.ts 234: page.$$eval rejected and scrollForPosts with it
QueryRejects ==
    /\ cPc = "query"
    /\ cLog' = Append(cLog, Op("query", 0))
    /\ cPc' = "threw"
    /\ UNCHANGED <<cStep, cSeen, cVideo>>
    /\ UNCHANGED <<batchVars, retryVars, handlerVars, scrollVars, pipeVars,
                   validateVars, parseVars, mediaVars, extractVars>>

NextCycle ==
    \/ CycleBegins
    \/ SubScroll
    \/ \E answer \in {"visible", "hidden", "rejected"} : SpinnerChecked(answer)
    \/ \E how \in {"hidden", "timeout"} : SpinnerWaitSettles(how)
    \/ SettleDelay
    \/ \E currentIds \in SUBSET PageIds : QueryAndMerge(currentIds)
    \/ QueryRejects

SpecCycle == InitCycle /\ [][NextCycle]_vars

\* the steps the order is about (the injection of video URLs is not one)
IsOrderedStep(e) == e.op # "inject"

\* the order of the steps of a cycle, with or without the spinner wait
StepsInOrder(withSpinnerWait) ==
    << [op |-> "scrollBy", arg |-> 8], [op |-> "waitForTimeout", arg |-> 300],
       [op |-> "scrollBy", arg |-> 8], [op |-> "waitForTimeout", arg |-> 300],
       [op |-> "scrollBy", arg |-> 8], [op |-> "waitForTimeout", arg |-> 300],
       [op |-> "isVisible", arg |-> 0] >>
    \o (IF withSpinnerWait THEN << [op |-> "spinnerWaitFor", arg |-> 10000] >>
        ELSE << >>)
    \o << [op |-> "waitForTimeout", arg |-> 2000],
          [op |-> "query", arg |-> 0], [op |-> "merge", arg |-> 0] >>

IsPrefix(a, b) == Len(a) <= Len(b) /\ a = SubSeq(b, 1, Len(a))

\* C32: within a cycle exactly three sub-scrolls of 0.8 viewport height come
\* first, then the wait for the loading indicator (only if one is visible),
\* then the settle delay, then the query of the rendered IDs, then the merge
\* into the seen-set; a timeout of the loading-indicator wait does not abort
\* the cycle, which still goes on to its query and merge.
C32_CycleStepsInOrder ==
    /\ [](LET steps == SelectSeq(cLog, IsOrderedStep)
          IN  /\ \E w \in BOOLEAN : IsPrefix(steps, StepsInOrder(w))
              /\ cPc = "done" => \E w \in BOOLEAN : steps = StepsInOrder(w))
    /\ [][/\ cPc = "spinner" => cPc' \in {"spinner", "settle"}
          /\ cPc' = "threw" => cPc = "query"
          /\ cPc' = "spinner" =>
                cLog'[Len(cLog')] = [op |-> "isVisible", arg |-> 0]
                   \/ cPc = "spinner"
          /\ cPc' = "done" => cPc \in {"done", "query"}
          /\ (cPc = "query" /\ cPc' = "done") =>
                \E ids \in SUBSET PageIds : cSeen' = cSeen \cup ids]_vars

\* a cycle whose spinner wait was performed ended with its query and merge,
\* which added an ID
C32_Witness ==
    /\ cPc = "done"
    /\ SelectSeq(cLog, IsOrderedStep) = StepsInOrder(TRUE)
    /\ cVideo
    /\ cSeen = PageIds

\* C33: a session with target >= 1 in which no cycle discovers an ID and
\* which is not ended by the time ceiling executes exactly 4 cycles; and
\* once 4 consecutive cycles have added no new ID the session ends without
\* another cycle, even though fewer cycles than the attempt cap have run.
C33_FourCyclesWithoutProgressEndSession ==
    /\ []((sPc = "complete" /\ sMaxItems >= 1 /\ sStop # "timeout"
           /\ \A k \in 1..Len(sGains) : ~sGains[k])
          => (scrollCount = 4 /\ Len(sGains) = 4 /\ sStop = "loopEnd"))
    /\ [](TrailingNoGain(sGains) >= 4 => sPc \in {"head", "complete"})
    /\ [][TrailingNoGain(sGains) >= 4
            => (scrollCount' = scrollCount /\ sPc' = "complete")]_vars

\* target 100, attempt cap 20: four cycles showed nothing and the session
\* is complete
C33_Witness ==
    /\ sPc = "complete"
    /\ sMaxItems = 100
    /\ sGains = <<FALSE, FALSE, FALSE, FALSE>>
    /\ scrollCount = 4
    /\ sStop = "loopEnd"

\* ------------------------------------------- the order of a handler's steps
\* the calls of extractPostsFromPage made so far: the profile and the post
\* action call the extractor of their own record first
BulkExtractions ==
    IF hAction \in {"profile", "post"} /\ pExtractCalls > 0
    THEN pExtractCalls - 1
    ELSE pExtractCalls

\* C34: in each action the steps of one task are strictly ordered:
\* scrollForPosts is called only after the wait for content succeeded,
\* extractPostsFromPage runs once and only after scrollForPosts returned
\* (never between scroll cycles, and not a second time), and a post record is
\* written only after that record passed validatePost.
C34_PipelineStepsStrictlyOrdered ==
    /\ [][pScrollCalls' # pScrollCalls
            => (Proceeds /\ pScrollCalls = 0 /\ BulkExtractions = 0)]_vars
    /\ [][BulkExtractions' # BulkExtractions
            => (/\ pScrollCalls = 1
                /\ pPc = "extract"
                /\ BulkExtractions = 0
                /\ BulkExtractions' = 1
                /\ UNCHANGED <<pScrollCalls, dataset>>)]_vars
    /\ [](pPc = "loop" => (BulkExtractions = 1 /\ pScrollCalls = 1))
    /\ [](\A k \in PostRecords : ValidatePost(dataset[k].post).valid)

\* ------------------------------------------- handlePageError on its own
\* a caller holds the classification of some page
InitHandlePageError ==
    /\ BatchIdle
    /\ RetryIdle
    /\ RestIdle
    /\ hAction \in HandlerActions
    /\ hPage \in Pages
    /\ hPc = "classified"
    /\ hInfo = DetectPageError(hPage)
    /\ hClassified = 1
    /\ hOutcome = "none"

\* page-helpers.ts 306: handlePageError(errorInfo, context) is called with
\* that classification and throws or returns
CallHandlePageError ==
    /\ hPc = "classified"
    /\ hOutcome' = HandlePageError(hInfo)
    /\ hPc' = "done"
    /\ UNCHANGED <<hAction, hPage, hInfo, hClassified>>
    /\ UNCHANGED <<batchVars, retryVars, restVars>>

NextHandlePageError == CallHandlePageError

SpecHandlePageError == InitHandlePageError /\ [][NextHandlePageError]_vars

\* C35: handlePageError applies a fixed priority: RateLimitError whenever
\* isRateLimited is set, whatever the other flags; otherwise the
\* login-required error when isLoginWall is set; otherwise the platform error
\* when isErrorPage is set; and it returns without throwing when none of the
\* three is set, isEmpty or not.
C35_HandlePageErrorPriority ==
    hPc = "done" =>
        /\ hInfo.isRateLimited => hOutcome = "RateLimitError"
        /\ (~hInfo.isRateLimited /\ hInfo.isLoginWall)
               => hOutcome = "LoginRequired"
        /\ (~hInfo.isRateLimited /\ ~hInfo.isLoginWall /\ hInfo.isErrorPage)
               => hOutcome = "PlatformError"
        /\ (~hInfo.isRateLimited /\ ~hInfo.isLoginWall /\ ~hInfo.isErrorPage)
               => hOutcome = "returns"

\* a page that is rate limited, a login wall and an error page at once
C35_Witness ==
    /\ hPc = "done"
    /\ hInfo.isRateLimited
    /\ hInfo.isLoginWall
    /\ hInfo.isErrorPage
    /\ hOutcome = "RateLimitError"

\* the fallback ran and nothing of the pipeline did
NothingAfterFallback ==
    /\ pPc = "ready"
    /\ pScrollCalls = 0
    /\ pExtractCalls = 0
    /\ dataset = <<>>
    /\ pOutcome = "none"

C37_ProfileFirstAndKept ==
    /\ [](hAction = "profile" =>
            /\ \A k \in PostRecords :
                   /\ k > 1
                   /\ dataset[1].type = "profile"
                   /\ dataset[k].source = Some("profile_posts")
            /\ (profileData.set /\ Falsy(profileData.val.username))
                   => dataset = <<>>)
    /\ [][hAction = "profile" =>
            /\ IsPrefix(dataset, dataset')
            /\ (ProfileRecords # {} /\ pPc # "done" /\ pPc' = "done")
                   => pOutcome' = "returned"]_vars

\* scrollForPosts threw after the profile record was written: the task
\* returned and the record is still there
C37_Witness ==
    /\ hAction = "profile"
    /\ pPc = "done"
    /\ pOutcome = "returned"
    /\ pScrollCalls = 1
    /\ pExtractCalls = 1
    /\ Len(dataset) = 1
    /\ dataset[1].type = "profile"

\* what validatePost asks of a post, in the claim's words
HasContentAuthorAndTime(post) ==
    /\ post.content.set
    /\ Len(post.content.val) >= 3
    /\ post.username.set
    /\ post.username.val \notin {"", "unknown"}
    /\ post.timestamp.set
    /\ post.timestamp.val # ""

\* C38: in the post action reply records are written only after the main
\* post was extracted, validated and written; when the main post cannot be
\* extracted or is invalid no reply is written; no reply record has the main
\* post's id; every reply record carries source 'reply' and the main post's
\* id as parentId; and a failure while fetching replies does not fail the
\* task.
C38_RepliesFollowTheMainPost ==
    /\ [](hAction = "post" =>
            /\ dataset # <<>> =>
                   /\ postData.set
                   /\ HasContentAuthorAndTime(postData.val)
                   /\ dataset[1] = PostRecord("post", postData.val, Undef,
                                              Undef)
            /\ \A k \in 2..Len(dataset) :
                   /\ dataset[k].type = "post"
                   /\ dataset[k].source = Some("reply")
                   /\ dataset[k].parentId = Some(postData.val.id)
                   /\ dataset[k].post.id # postData.val.id)
    /\ [][hAction = "post" =>
            /\ IsPrefix(dataset, dataset')
            /\ (dataset # <<>> /\ pPc # "done" /\ pPc' = "done")
                   => pOutcome' = "returned"]_vars

\* extractPostsFromPage returned the main post and a reply: one reply record
\* follows the main post's
C38_Witness ==
    /\ hAction = "post"
    /\ pPc = "done"
    /\ Len(pPosts) = 2
    /\ \E k \in 1..2 : pPosts[k].id = postData.val.id
    /\ Len(dataset) = 2
    /\ dataset[2].source = Some("reply")

\* --------------------------------------------------- extractPostsFromPage
MaxLinks == 3          \* number of a[href*="/post/"] elements on the page

\* what handling a link with a post id does when it is handled: the
\* container is found and parsed, parsePostFromElement throws inside its try
\* block, no ancestor qualifies as container, or link.evaluateHandle rejects
LinkOutcomes == {"parsed", "parseThrows", "noContainer", "lookupThrows"}

\* a link element: its href attribute cannot be read, does not match
\* /@user/post/id, or names a post id
LinkElements ==
    {[kind |-> "noHref", id |-> 0, outcome |-> "none"],
     [kind |-> "noMatch", id |-> 0, outcome |-> "none"]}
      \cup [kind : {"post"}, id : PostIds, outcome : LinkOutcomes]

\* the maxItems argument: omitted (Infinity) or a count
ExtractLimits == {Undef} \cup {Some(n) : n \in 0..MaxPosts}

\* selectors.ts 111: posts.length >= maxItems
AtLimit(posts, maxItems) == maxItems.set /\ Len(posts) >= maxItems.val

\* selectors.ts 122: seenIds.has(postId)
AlreadySeenNever(seen, postId) == FALSE

AlreadySeen(seen, postId) == postId \in seen

\* selectors.ts 373-374: the record parsePostFromElement builds carries the
\* id it was given
ParsedPost(postId) == [id |-> postId]

InitExtract ==
    /\ BatchIdle
    /\ RetryIdle
    /\ HandlerIdle
    /\ ScrollIdle
    /\ PipeIdle
    /\ ValidateIdle
    /\ ParseIdle
    /\ MediaIdle
    /\ CycleIdle
    /\ eLinks \in SeqsUpTo(LinkElements, MaxLinks)
    /\ eMaxItems \in ExtractLimits
    /\ ePc = "loop"
    /\ eI = 1
    /\ ePosts = <<>>
    /\ eSeenIds = {}
    /\ eLookups = <<>>
    /\ eResult = Undef

\* selectors.ts 110-111: the loop is at a link and below the limit
AtLink ==
    /\ ePc = "loop"
    /\ eI <= Len(eLinks)
    /\ ~AtLimit(ePosts, eMaxItems)

\* selectors.ts 114-122: the three `continue`s before the container lookup
SkipLink ==
    /\ AtLink
    /\ \/ eLinks[eI].kind # "post"
       \/ AlreadySeen(eSeenIds, eLinks[eI].id)
    /\ eI' = eI + 1
    /\ UNCHANGED <<eLinks, eMaxItems, ePc, ePosts, eSeenIds, eLookups,
                   eResult>>
    /\ UNCHANGED <<batchVars, retryVars, handlerVars, scrollVars, pipeVars,
                   validateVars, parseVars, mediaVars, cycleVars>>

\* selectors.ts 123-167: the id is marked as seen, the container is looked
\* up and parsed. A rejection of link.evaluateHandle (127) is not caught and
\* leaves the function; parsePostFromElement catches whatever its body
\* throws and returns null (184, 414-416)
HandleItem ==
    /\ AtLink
    /\ eLinks[eI].kind = "post"
    /\ ~AlreadySeen(eSeenIds, eLinks[eI].id)
    /\ eSeenIds' = eSeenIds \cup {eLinks[eI].id}
    /\ eLookups' = Append(eLookups, eLinks[eI].id)
    /\ IF eLinks[eI].outcome = "lookupThrows"
       THEN ePc' = "threw" /\ UNCHANGED <<eI, ePosts>>
       ELSE /\ eI' = eI + 1
            /\ ePosts' = IF eLinks[eI].outcome = "parsed"
                         THEN Append(ePosts, ParsedPost(eLinks[eI].id))
                         ELSE ePosts
            /\ UNCHANGED ePc
    /\ UNCHANGED <<eLinks, eMaxItems, eResult>>
    /\ UNCHANGED <<batchVars, retryVars, handlerVars, scrollVars, pipeVars,
                   validateVars, parseVars, mediaVars, cycleVars>>

\* selectors.ts 110-111, 170: the loop ends or breaks and posts is returned
ExtractReturns ==
    /\ ePc = "loop"
    /\ eI > Len(eLinks) \/ AtLimit(ePosts, eMaxItems)
    /\ ePc' = "returned"
    /\ eResult' = Some(ePosts)
    /\ UNCHANGED <<eLinks, eMaxItems, eI, ePosts, eSeenIds, eLookups>>
    /\ UNCHANGED <<batchVars, retryVars, handlerVars, scrollVars, pipeVars,
                   validateVars, parseVars, mediaVars, cycleVars>>

NextExtract ==
    \/ SkipLink
    \/ HandleItem
    \/ ExtractReturns

SpecExtract == InitExtract /\ [][NextExtract]_vars

\* the position of the first link that names the post id
FirstLinkOf(postId) ==
    CHOOSE k \in 1..Len(eLinks) :
        /\ eLinks[k].kind = "post"
        /\ eLinks[k].id = postId
        /\ \A j \in 1..(k - 1) : ~(eLinks[j].kind = "post"
                                   /\ eLinks[j].id = postId)

\* C39: for any sequence of item links (ids may repeat) and any limit,
\* extractPostsFromPage returns a list in which no post id occurs twice,
\* whose length is at most the limit, and whose order is that of the first
\* appearance of each id among the links; and an id's container is looked up
\* at most once, found or not.
C39_DistinctBoundedInFirstAppearanceOrder ==
    /\ \A a, b \in 1..Len(eLookups) : eLookups[a] = eLookups[b] => a = b
    /\ ePc = "returned" =>
        LET result == eResult.val
        IN  /\ \A a, b \in 1..Len(result) :
                   result[a].id = result[b].id => a = b
            /\ eMaxItems.set => Len(result) <= eMaxItems.val
            /\ \A a \in 1..Len(result) :
                   \E k \in 1..Len(eLinks) :
                       eLinks[k].kind = "post" /\ eLinks[k].id = result[a].id
            /\ \A a, b \in 1..Len(result) :
                   a < b => FirstLinkOf(result[a].id)
                                < FirstLinkOf(result[b].id)

\* the first link of an id has no container, a second link of the same id
\* would parse: the id is not tried again and only the other id is returned
C39_Witness ==
    /\ ePc = "returned"
    /\ Len(eLinks) = 3
    /\ eLinks[1].kind = "post"
    /\ eLinks[1].outcome = "noContainer"
    /\ eLinks[2].kind = "post"
    /\ eLinks[2].id = eLinks[1].id
    /\ eLinks[2].outcome = "parsed"
    /\ Len(eLookups) = 2
    /\ Len(eResult.val) = 1
    /\ eResult.val[1].id # eLinks[1].id

\* the links whose item is handled when no failure stops the function: the
\* first link of each id
IsFirstLink(k) == eLinks[k].kind = "post" /\ FirstLinkOf(eLinks[k].id) = k

\* C40: a failure while handling a single item (its container lookup or its
\* parse step throwing) skips only that item: the function still returns,
\* every later item is still processed, and the records of the items that
\* parsed are returned.
C40_ItemFailureSkipsOnlyThatItem ==
    /\ ePc # "threw"
    /\ ePc = "returned" =>
        \/ AtLimit(eResult.val, eMaxItems)
        \/ \A k \in 1..Len(eLinks) :
               IsFirstLink(k) =>
                   /\ \E a \in 1..Len(eLookups) : eLookups[a] = eLinks[k].id
                   /\ eLinks[k].outcome = "parsed" =>
                          \E a \in 1..Len(eResult.val) :
                              eResult.val[a].id = eLinks[k].id

====
